---- MODULE Spec2Model ----
(***************************************************************************)
(* SavFlo: the derived-metrics and insight engine of the dashboard.        *)
(*                                                                         *)
(* Amounts are whole currency units.  A JavaScript number that results     *)
(* from a division is kept as an exact fraction n/d, or as one of the      *)
(* IEEE special values NaN, +Infinity, -Infinity that a division by zero   *)
(* produces.  A comparison against a product with a decimal constant is    *)
(* decided as the double arithmetic decides it on whole amounts; apart     *)
(* from that the rounding of the binary representation is not modelled.    *)
(***************************************************************************)
EXTENDS Integers, Sequences, FiniteSets, TLC

VARIABLES
    \* ---- budgets (BudgetORM, BudgetTracker, DashboardOverview)
    budgetStore,    \* BudgetORM: the stored budgets, in insertion order
    budgets,        \* the `budgets` state of the mounted component
    activeTab,      \* Dashboard: the tab whose content is mounted
    \* ---- savings goals (SavingsGoalORM, SavingsGoals)
    goalStore,      \* SavingsGoalORM: the stored goals, index = id
    goals,          \* SavingsGoals: the `goals` state (last loaded list)
    goalOps,        \* ORM writes issued by a handler and not yet applied
    toasts,         \* the last toast the goals view raised
    \* ---- AI mutations (use-openai-gpt-chat.ts)
    aiHook,         \* which mutation is running / ran last
    aiInput,        \* its input
    aiPc,           \* idle | calling | success | error
    aiCalls,        \* createChatCompletion calls of this invocation
    aiResponse,     \* what createChatCompletion answered, or NoResponse
    aiResult,       \* the value the mutation resolved with, or NoResult
    aiError,        \* the error it rejected with, or "none"
    \* ---- application shell (App, Dashboard, DashboardOverview)
    profileStore,   \* UserProfileORM: the stored tier, or "none"
    userProfile,    \* App: `userProfile` state: its tier, or "none"
    overview,       \* DashboardOverview: its loaded state
    modals,         \* pricing / coaching modal flags
    insightCalls,   \* daily-insight requests of the overview: started, outstanding
    env,            \* what the other ORMs hold and the day of the month
    \* ---- spending analytics (SpendingAnalytics)
    transactions,   \* SpendingAnalytics: the loaded transactions
    timeFilter,     \* SpendingAnalytics: weekly | monthly | quarterly | yearly
    now,            \* the instant `new Date()` returns
    \* ---- subscriptions (SubscriptionTracker)
    subscriptions,  \* SubscriptionTracker: the `subscriptions` state
    \* ---- integrations (Integrations)
    integrations,   \* Integrations: the `integrations` state
    timers,         \* connection timeouts set and not yet fired
    lastClick       \* what the last click on the integration's button asked for

budgetVars == <<budgetStore, budgets, activeTab>>
goalVars == <<goalStore, goals, goalOps, toasts>>
aiVars == <<aiHook, aiInput, aiPc, aiCalls, aiResponse, aiResult, aiError>>
appVars == <<profileStore, userProfile, overview, modals, insightCalls, env>>
anVars == <<transactions, timeFilter, now>>
subVars == <<subscriptions>>
intVars == <<integrations, timers, lastClick>>
vars == <<budgetVars, goalVars, aiVars, appVars, anVars, subVars, intVars>>
\* what an action of one component leaves alone
notBudget == <<goalVars, aiVars, appVars, anVars, subVars, intVars>>
notGoals == <<budgetVars, aiVars, appVars, anVars, subVars, intVars>>
notAi == <<budgetVars, goalVars, appVars, anVars, subVars, intVars>>
notApp == <<goalVars, anVars, subVars, intVars>>
notAnalytics == <<budgetVars, goalVars, aiVars, appVars, subVars, intVars>>
notSubscriptions == <<budgetVars, goalVars, aiVars, appVars, anVars, intVars>>
notIntegrations == <<budgetVars, goalVars, aiVars, appVars, anVars, subVars>>

----------------------------------------------------------------------------
(* JavaScript numbers                                                      *)

Fin(n, d) == [k |-> "fin", n |-> n, d |-> d]
NaN == [k |-> "nan", n |-> 0, d |-> 1]
PosInf == [k |-> "pinf", n |-> 1, d |-> 1]
NegInf == [k |-> "ninf", n |-> -1, d |-> 1]
Num(a) == Fin(a, 1)

\* a / b for two integers, as the IEEE division gives it
JsDiv(a, b) ==
    IF b = 0
    THEN (IF a = 0 THEN NaN ELSE IF a > 0 THEN PosInf ELSE NegInf)
    ELSE IF b > 0 THEN Fin(a, b) ELSE Fin(-a, -b)

\* x * c for an integer c > 0
JsTimes(x, c) == IF x.k = "fin" THEN Fin(x.n * c, x.d) ELSE x

\* x - c for an integer c
JsMinus(x, c) == IF x.k = "fin" THEN Fin(x.n - c * x.d, x.d) ELSE x

\* comparisons of a number with an integer; every comparison with NaN is false
JsGeq(x, c) == \/ x.k = "pinf"
               \/ x.k = "fin" /\ x.n >= c * x.d
JsGt(x, c) == \/ x.k = "pinf"
              \/ x.k = "fin" /\ x.n > c * x.d
JsLt(x, c) == \/ x.k = "ninf"
              \/ x.k = "fin" /\ x.n < c * x.d
JsLeq(x, c) == \/ x.k = "ninf"
               \/ x.k = "fin" /\ x.n <= c * x.d
JsEq(x, c) == x.k = "fin" /\ x.n = c * x.d

\* Math.min(x, c): NaN if x is NaN
JsMin(x, c) ==
    IF x.k = "nan" THEN NaN
    ELSE IF JsLt(x, c) THEN x ELSE Num(c)

\* (a / b) * 100
Percent(a, b) == JsTimes(JsDiv(a, b), 100)

RECURSIVE SumOver(_, _)
\* s.reduce((sum, e) => sum + e[field], 0), for a sequence s of records
SumOver(s, field) ==
    IF s = <<>> THEN 0 ELSE s[1][field] + SumOver(Tail(s), field)

----------------------------------------------------------------------------
(* Budgets                                                                 *)

MaxBudgets == 1
MaxSpent == 5
\* values the create-budget form is driven with (any number is accepted)
LimitInputs == {0, 4}
ThresholdInputs == {50, 120}

Budget(limit, spent, threshold) ==
    [monthly_limit |-> limit, current_spent |-> spent, alert_threshold |-> threshold]

getBudgetStatus(budget) ==
    LET percentage == Percent(budget.current_spent, budget.monthly_limit)
    IN  IF JsGeq(percentage, budget.alert_threshold) THEN "warning"
        ELSE IF JsGeq(percentage, 100) THEN "exceeded"
        ELSE "ok"

\* what BudgetTracker renders for one budget of its state
BudgetRow(budget) ==
    LET percentage == Percent(budget.current_spent, budget.monthly_limit)
    IN  [percentage |-> percentage,
         status |-> getBudgetStatus(budget),
         progress |-> JsMin(percentage, 100)]

BudgetRows == [i \in DOMAIN budgets |-> BudgetRow(budgets[i])]

\* DashboardOverview: the aggregate figures of the Monthly Budget card
totalBudget == SumOver(budgets, "monthly_limit")
totalSpent == SumOver(budgets, "current_spent")
budgetPercentage ==
    IF totalBudget > 0 THEN Percent(totalSpent, totalBudget) ELSE Num(0)
\* the value handed to the card's <Progress>
OverviewBudgetProgress == budgetPercentage

\* BudgetTracker.onSubmit: insert the new budget, then loadBudgets
BudgetOnSubmit(limit, threshold) ==
    /\ activeTab = "budgets"
    /\ Len(budgetStore) < MaxBudgets
    /\ budgetStore' = Append(budgetStore, Budget(limit, 0, threshold))
    /\ budgets' = budgetStore'
    /\ UNCHANGED activeTab
    /\ UNCHANGED notBudget

\* a transaction accrues to the running total of a stored budget
AccrueSpending(i, amount) ==
    /\ i \in DOMAIN budgetStore
    /\ budgetStore[i].current_spent + amount <= MaxSpent
    /\ budgetStore' = [budgetStore EXCEPT ![i].current_spent = @ + amount]
    /\ UNCHANGED <<budgets, activeTab>>
    /\ UNCHANGED notBudget

\* the Budgets tab is opened: BudgetTracker mounts and runs loadBudgets
MountBudgetTracker ==
    /\ activeTab' = "budgets"
    /\ budgets' = budgetStore
    /\ UNCHANGED budgetStore
    /\ UNCHANGED notBudget

\* the Overview tab is opened: DashboardOverview mounts and loads its data
MountOverviewBudgets ==
    /\ activeTab' = "overview"
    /\ budgets' = budgetStore
    /\ UNCHANGED budgetStore
    /\ UNCHANGED notBudget

BudgetNext ==
    \/ \E l \in LimitInputs, t \in ThresholdInputs : BudgetOnSubmit(l, t)
    \/ \E i \in 1..MaxBudgets, a \in 1..2 : AccrueSpending(i, a)
    \/ MountBudgetTracker
    \/ MountOverviewBudgets

----------------------------------------------------------------------------
(* Savings goals                                                           *)

\* goals stored, the largest amount a goal is taken to, and handlers that
\* wait for their ORM write at one time.  Deleting a goal is not modelled.
MaxGoals == 1
MaxAmount == 9
MaxGoalOps == 1
\* values the goal form and the contribution box are driven with
TargetInputs == {8}
CurrentInputs == {-1, 0, 8}
ContributionInputs == {-1, 1, 6}

MILESTONES == <<25, 50, 75, 100>>
NoMilestone == 0

Goal(target, current, completed) ==
    [target_amount |-> target, current_amount |-> current, is_completed |-> completed]

NoToast == [kind |-> "none"]

\* MILESTONES.find(pred): the first milestone from position i on that
\* satisfies pred, NoMilestone (undefined) if there is none
RECURSIVE FindMilestoneFrom(_, _, _)
FindMilestoneFrom(i, oldPercentage, newPercentage) ==
    IF i > Len(MILESTONES) THEN NoMilestone
    ELSE IF JsLt(oldPercentage, MILESTONES[i]) /\ JsGeq(newPercentage, MILESTONES[i])
         THEN MILESTONES[i]
         ELSE FindMilestoneFrom(i + 1, oldPercentage, newPercentage)

\* the same search keeping the last match: the highest crossed milestone
RECURSIVE FindLastMilestoneFrom(_, _, _)
FindLastMilestoneFrom(i, oldPercentage, newPercentage) ==
    IF i < 1 THEN NoMilestone
    ELSE IF JsLt(oldPercentage, MILESTONES[i]) /\ JsGeq(newPercentage, MILESTONES[i])
         THEN MILESTONES[i]
         ELSE FindLastMilestoneFrom(i - 1, oldPercentage, newPercentage)

achievedMilestoneHighest(goal, newAmount) ==
    FindLastMilestoneFrom(Len(MILESTONES),
                          Percent(goal.current_amount, goal.target_amount),
                          Percent(newAmount, goal.target_amount))

\* handleAddContribution: the milestone a contribution achieves
achievedMilestone(goal, newAmount) ==
    FindMilestoneFrom(1,
                      Percent(goal.current_amount, goal.target_amount),
                      Percent(newAmount, goal.target_amount))

\* SavingsGoals.getProgress
getProgress(goal) ==
    JsMin(Percent(goal.current_amount, goal.target_amount), 100)

\* deadlines a goal is given: none, or the number of half days from now to
\* the midnight the date string stands for.  No handler reads the deadline of
\* a goal, so it is an argument of the functions below and not a field.
NoDeadline == <<>>
DeadlineInputs == {NoDeadline, <<-3>>, <<-1>>, <<1>>, <<20>>, <<80>>}

\* SavingsGoals.getDaysRemaining: null without a deadline, otherwise
\* Math.ceil of the days from now to the deadline
getDaysRemaining(deadline) ==
    IF deadline = NoDeadline THEN <<>>
    ELSE <<(deadline[1] + 1) \div 2>>

\* SavingsGoals.getAIInsight.  weeklySavings and dailySavings are the two
\* constants of the branch that computes them, empty where it is not entered;
\* message names the text returned.
getAIInsight(goal, deadline) ==
    LET progress == getProgress(goal)
        daysRemaining == getDaysRemaining(deadline)
        remaining == goal.target_amount - goal.current_amount
        NoRate(type, message) ==
            [type |-> type, message |-> message,
             dailySavings |-> <<>>, weeklySavings |-> <<>>]
    IN  IF JsGeq(progress, 100) THEN NoRate("success", "achieved")
        ELSE IF daysRemaining # <<>> /\ daysRemaining[1] > 0
        THEN LET dailySavings == JsDiv(remaining, daysRemaining[1])
                 weeklySavings == JsTimes(dailySavings, 7)
                 Rate(type, message) ==
                    [type |-> type, message |-> message,
                     dailySavings |-> <<dailySavings>>,
                     weeklySavings |-> <<weeklySavings>>]
             IN  IF JsGeq(progress, 75) THEN Rate("positive", "aheadPerWeek")
                 ELSE IF JsGeq(progress, 50) THEN Rate("neutral", "onTrackPerWeek")
                 ELSE IF daysRemaining[1] < 30 THEN Rate("warning", "catchUpPerDay")
                 ELSE Rate("neutral", "weeklyByDeadline")
        ELSE IF JsLt(progress, 25) THEN NoRate("neutral", "momentum")
        ELSE NoRate("positive", "greatProgress")

\* number of inserts issued and not yet applied
PendingInserts == Cardinality({j \in DOMAIN goalOps : goalOps[j].kind = "insert"})

\* SavingsGoals.onSubmit with no goal being edited, up to its first await:
\* the record is built and orm.insertSavingsGoal is issued
GoalCreateSubmit(target, current) ==
    /\ Len(goalOps) < MaxGoalOps
    /\ Len(goalStore) + PendingInserts < MaxGoals
    /\ goalOps' = Append(goalOps,
                    [kind |-> "insert", id |-> 0,
                     rec |-> Goal(target, current, FALSE),
                     toast |-> [kind |-> "created"]])
    /\ UNCHANGED <<goalStore, goals, toasts>>
    /\ UNCHANGED notGoals

\* SavingsGoals.onSubmit while editing goal i of the list (openEditDialog put
\* it in editingGoal), up to its first await: orm.setSavingsGoalById is issued
GoalEditSubmit(i, target, current) ==
    /\ Len(goalOps) < MaxGoalOps
    /\ i \in DOMAIN goals
    /\ goalOps' = Append(goalOps,
                    [kind |-> "set", id |-> i,
                     rec |-> [goals[i] EXCEPT !.target_amount = target,
                                              !.current_amount = current,
                                              !.is_completed = FALSE],
                     toast |-> [kind |-> "updated"]])
    /\ UNCHANGED <<goalStore, goals, toasts>>
    /\ UNCHANGED notGoals

\* SavingsGoals.handleAddContribution with an amount that is not valid
RejectContribution(i, c) ==
    /\ i \in DOMAIN goals
    /\ ~goals[i].is_completed
    /\ c <= 0
    /\ toasts' = [kind |-> "error"]
    /\ UNCHANGED <<goalStore, goals, goalOps>>
    /\ UNCHANGED notGoals

\* SavingsGoals.handleAddContribution for goal i of the rendered list, up to
\* its first await, while fewer than `pending` writes are awaited.  The Add
\* button is rendered for goals not completed.
Contribute(i, c, pending) ==
    /\ Len(goalOps) < pending
    /\ i \in DOMAIN goals
    /\ ~goals[i].is_completed
    /\ c > 0
    /\ LET goal == goals[i]
           newAmount == goal.current_amount + c
           isCompleted == newAmount >= goal.target_amount
           milestone == achievedMilestone(goal, newAmount)
       IN  /\ newAmount <= MaxAmount
           /\ goalOps' = Append(goalOps,
                  [kind |-> "set", id |-> i,
                   rec |-> [goal EXCEPT !.current_amount = newAmount,
                                        !.is_completed = isCompleted],
                   toast |-> [kind |-> IF milestone # NoMilestone
                                       THEN "milestone" ELSE "added",
                              milestone |-> milestone,
                              old |-> goal.current_amount,
                              new |-> newAmount,
                              target |-> goal.target_amount]])
    /\ UNCHANGED <<goalStore, goals, toasts>>
    /\ UNCHANGED notGoals

AddContribution(i, c) == Contribute(i, c, MaxGoalOps)

\* the writes awaited by handleAddContribution for goal i
PendingContributions(i) ==
    {j \in DOMAIN goalOps :
        goalOps[j].id = i /\ goalOps[j].toast.kind \in {"added", "milestone"}}

\* Add is clicked again while the write of a contribution to the same goal is
\* awaited: the box and the button stay as they are until that write returns
AddContributionAgain(i, c) ==
    /\ PendingContributions(i) # {}
    /\ Contribute(i, c, MaxGoalOps + 1)

RemoveAt(s, j) == [k \in 1..(Len(s) - 1) |-> IF k < j THEN s[k] ELSE s[k + 1]]

\* the ORM call of pending handler j returns: the write is in the store, the
\* handler raises its toast and runs loadGoals
GoalOpCompletes(j) ==
    /\ j \in DOMAIN goalOps
    /\ LET op == goalOps[j]
       IN  /\ goalStore' = IF op.kind = "insert"
                           THEN Append(goalStore, op.rec)
                           ELSE [goalStore EXCEPT ![op.id] = op.rec]
           /\ toasts' = op.toast
    /\ goals' = goalStore'
    /\ goalOps' = RemoveAt(goalOps, j)
    /\ UNCHANGED notGoals

GoalNext ==
    \/ \E t \in TargetInputs, c \in CurrentInputs : GoalCreateSubmit(t, c)
    \/ \E i \in 1..MaxGoals, t \in TargetInputs, c \in CurrentInputs :
          GoalEditSubmit(i, t, c)
    \/ \E i \in 1..MaxGoals, c \in ContributionInputs : RejectContribution(i, c)
    \/ \E i \in 1..MaxGoals, c \in ContributionInputs : AddContribution(i, c)
    \/ \E j \in 1..MaxGoalOps : GoalOpCompletes(j)

\* the goals view with a second click on Add
ContributionNext ==
    \/ \E t \in TargetInputs, c \in CurrentInputs : GoalCreateSubmit(t, c)
    \/ \E i \in 1..MaxGoals, c \in ContributionInputs : RejectContribution(i, c)
    \/ \E i \in 1..MaxGoals, c \in ContributionInputs : AddContribution(i, c)
    \/ \E i \in 1..MaxGoals, c \in ContributionInputs : AddContributionAgain(i, c)
    \/ \E j \in 1..(MaxGoalOps + 1) : GoalOpCompletes(j)

----------------------------------------------------------------------------
(* Subscriptions: SubscriptionTracker                                      *)

\* subscriptions stored at one time
MaxSubscriptions == 2
\* what the subscription form is driven with: parseFloat of the amount typed,
\* the billing cycle chosen in the select, and the active switch
AmountInputs == {Num(10), Num(15), Fin(999, 100)}
BillingCycleInputs == {"Weekly", "Monthly", "Yearly"}

BILLING_CYCLES ==
    <<[value |-> "Weekly", label |-> "Weekly", multiplier |-> 52],
      [value |-> "Monthly", label |-> "Monthly", multiplier |-> 12],
      [value |-> "Yearly", label |-> "Yearly", multiplier |-> 1]>>

Subscription(amount, cycle, active) ==
    [amount |-> amount, billing_cycle |-> cycle, is_active |-> active]

\* x + y, as a fraction in lowest terms
JsPlus(x, y) ==
    IF x.k = "fin" /\ y.k = "fin"
    THEN LET RECURSIVE Gcd(_, _)
             Gcd(a, b) == IF b = 0 THEN a ELSE Gcd(b, a % b)
             n == x.n * y.d + y.n * x.d
             d == x.d * y.d
             g == Gcd(IF n < 0 THEN -n ELSE n, d)
         IN  Fin(n \div g, d \div g)
    ELSE IF x.k = "nan" \/ y.k = "nan" THEN NaN
    ELSE IF x.k = "fin" THEN y
    ELSE IF y.k = "fin" \/ x.k = y.k THEN x
    ELSE NaN

\* x / c for an integer c > 0
JsOver(x, c) == IF x.k = "fin" THEN Fin(x.n, x.d * c) ELSE x

\* x.toFixed(2) of a number x >= 0, in hundredths
toFixed2(x) == (2 * 100 * x.n + x.d) \div (2 * x.d)

\* the amount every cycle is taken to be billed twelve times a year
getYearlyCostAsMonthly(amount, cycle) == JsTimes(amount, 12)

\* SubscriptionTracker.getYearlyCost: the multiplier of the first billing
\* cycle of the table with the cycle's value, 12 if there is none
getYearlyCost(amount, cycle) ==
    LET found == {i \in DOMAIN BILLING_CYCLES : BILLING_CYCLES[i].value = cycle}
        multiplier == IF found = {} THEN 12
                      ELSE BILLING_CYCLES[CHOOSE i \in found : \A j \in found : i <= j].multiplier
    IN  JsTimes(amount, multiplier)

\* subs.filter(sub => sub.is_active)
RECURSIVE ActiveSubscriptions(_)
ActiveSubscriptions(subs) ==
    IF subs = <<>> THEN <<>>
    ELSE IF subs[1].is_active
         THEN <<subs[1]>> \o ActiveSubscriptions(Tail(subs))
         ELSE ActiveSubscriptions(Tail(subs))

\* the reduce of getTotalMonthlySpend over the active subscriptions
RECURSIVE MonthlySpendOf(_)
MonthlySpendOf(subs) ==
    IF subs = <<>> THEN Num(0)
    ELSE JsPlus(MonthlySpendOf(SubSeq(subs, 1, Len(subs) - 1)),
                JsOver(getYearlyCost(subs[Len(subs)].amount,
                                     subs[Len(subs)].billing_cycle), 12))

\* the reduce of getTotalYearlySpend over the active subscriptions
RECURSIVE YearlySpendOf(_)
YearlySpendOf(subs) ==
    IF subs = <<>> THEN Num(0)
    ELSE JsPlus(YearlySpendOf(SubSeq(subs, 1, Len(subs) - 1)),
                getYearlyCost(subs[Len(subs)].amount, subs[Len(subs)].billing_cycle))

getTotalMonthlySpend == MonthlySpendOf(ActiveSubscriptions(subscriptions))
getTotalYearlySpend == YearlySpendOf(ActiveSubscriptions(subscriptions))

\* what the grid shows as the yearly cost of subscription i
YearlyCostShown(i) ==
    toFixed2(getYearlyCost(subscriptions[i].amount, subscriptions[i].billing_cycle))

\* SubscriptionTracker.onSubmit with no subscription being edited: the record
\* is inserted and the list is loaded again
SubscriptionOnSubmit(amount, cycle, isActive) ==
    /\ Len(subscriptions) < MaxSubscriptions
    /\ subscriptions' = Append(subscriptions, Subscription(amount, cycle, isActive))
    /\ UNCHANGED notSubscriptions

\* SubscriptionTracker.onSubmit while subscription i is being edited
SubscriptionEditSubmit(i, amount, cycle, isActive) ==
    /\ i \in DOMAIN subscriptions
    /\ subscriptions' = [subscriptions EXCEPT ![i] = Subscription(amount, cycle, isActive)]
    /\ UNCHANGED notSubscriptions

\* SubscriptionTracker.handleToggleActive
handleToggleActive(i) ==
    /\ i \in DOMAIN subscriptions
    /\ subscriptions' = [subscriptions EXCEPT ![i].is_active = ~@]
    /\ UNCHANGED notSubscriptions

\* SubscriptionTracker.handleDeleteSubscription
handleDeleteSubscription(i) ==
    /\ i \in DOMAIN subscriptions
    /\ subscriptions' = [k \in 1..(Len(subscriptions) - 1) |->
                            IF k < i THEN subscriptions[k] ELSE subscriptions[k + 1]]
    /\ UNCHANGED notSubscriptions

SubscriptionNext ==
    \/ \E a \in AmountInputs, c \in BillingCycleInputs, act \in BOOLEAN :
          SubscriptionOnSubmit(a, c, act)
    \/ \E i \in 1..MaxSubscriptions, a \in AmountInputs, c \in BillingCycleInputs,
          act \in BOOLEAN : SubscriptionEditSubmit(i, a, c, act)
    \/ \E i \in 1..MaxSubscriptions : handleToggleActive(i)
    \/ \E i \in 1..MaxSubscriptions : handleDeleteSubscription(i)

----------------------------------------------------------------------------
(* Integrations                                                            *)

\* connection timeouts pending at one time
MaxTimers == 4
\* the delay of the simulated connection, 1500 ms, in half seconds
ConnectDelay == 3

IntegrationsAtMount == <<[id |-> "stripe", status |-> "disconnected"]>>

\* prev.map(i => i.id === integrationId ? { ...i, status } : i)
WithStatus(prev, integrationId, status) ==
    [k \in DOMAIN prev |->
        IF prev[k].id = integrationId THEN [prev[k] EXCEPT !.status = status]
        ELSE prev[k]]

\* Integrations.handleConnect: a click on the button of an integration.  A
\* connected integration is disconnected at once; otherwise the connection
\* is simulated by a timeout.  `timers` holds the time each pending timeout
\* has left, and lastClick records which of the two the click asked for.
handleConnect(integrationId) ==
    /\ \E k \in DOMAIN integrations : integrations[k].id = integrationId
    /\ LET integration ==
               integrations[CHOOSE k \in DOMAIN integrations :
                                integrations[k].id = integrationId]
       IN  IF integration.status = "connected"
           THEN /\ integrations' = WithStatus(integrations, integrationId, "disconnected")
                /\ lastClick' = "disconnect"
                /\ UNCHANGED timers
           ELSE /\ Len(timers) < MaxTimers
                /\ timers' = Append(timers, ConnectDelay)
                /\ lastClick' = "connect"
                /\ UNCHANGED integrations
    /\ UNCHANGED notIntegrations

\* half a second passes while no pending timeout is due
HalfSecondPasses ==
    /\ timers # <<>>
    /\ \A k \in DOMAIN timers : timers[k] > 0
    /\ timers' = [k \in DOMAIN timers |-> timers[k] - 1]
    /\ UNCHANGED <<integrations, lastClick>>
    /\ UNCHANGED notIntegrations

\* the callback handleConnect gave to setTimeout runs
ConnectionCompletes ==
    /\ timers # <<>>
    /\ Head(timers) = 0
    /\ integrations' = WithStatus(integrations, "stripe", "connected")
    /\ timers' = Tail(timers)
    /\ UNCHANGED lastClick
    /\ UNCHANGED notIntegrations

IntegrationsNext ==
    \/ handleConnect("stripe")
    \/ HalfSecondPasses
    \/ ConnectionCompletes

----------------------------------------------------------------------------
(* AI mutations: useGenerateDailyInsight, useGenerateSavingsRecommendation *)

\* inputs the mutations are driven with
TxCountInputs == {0, 1, 2}
BudgetStatusInputs ==
    {[totalBudget |-> 0, spent |-> 0], [totalBudget |-> 0, spent |-> 3],
     [totalBudget |-> 10, spent |-> 6], [totalBudget |-> 10, spent |-> 7],
     [totalBudget |-> 10, spent |-> 8], [totalBudget |-> 10, spent |-> 9],
     [totalBudget |-> 10, spent |-> 10]}
IncomeInputs == {-1, 0, 5}

(* A text is the sequence of its lines, and the content of an answer is the *)
(* sequence of its lines that are not blank.  A line carries its text and   *)
(* what the patterns of the parsers find in it:                             *)
(*   recommendation  the trimmed capture of /RECOMMENDATION:\s*(.+)/i,      *)
(*   savings         parseFloat of the capture of                           *)
(*                   /SAVINGS:\s*\$?(\d+(?:\.\d{2})?)/i,                    *)
(*   difficulty      the capture of /DIFFICULTY:\s*(easy|medium|hard)/i in  *)
(*                   lower case,                                            *)
(* each as a one-element sequence, or <<>> where the pattern does not       *)
(* match;                                                                   *)
(*   marker          the line matches /RECOMMENDATION:|SAVINGS:|DIFFICULTY:/i, *)
(*   listItem        it includes '-' or a bullet or starts with digits and  *)
(*                   a dot,                                                 *)
(*   stripped        line.replace(/^[-\u2022]\s*|\d+\.\s*/, '').trim().     *)
Line(text, recommendation, savings, difficulty, marker, listItem, stripped) ==
    [text |-> text, recommendation |-> recommendation, savings |-> savings,
     difficulty |-> difficulty, marker |-> marker, listItem |-> listItem,
     stripped |-> stripped]

\* lines an answer may hold
ResponseLines ==
    [cook |-> Line("RECOMMENDATION: Cook at home", <<"Cook at home">>, <<>>, <<>>,
                   TRUE, FALSE, "RECOMMENDATION: Cook at home"),
     cancel |-> Line("RECOMMENDATION: Cancel unused subscriptions",
                     <<"Cancel unused subscriptions">>, <<>>, <<>>,
                     TRUE, FALSE, "RECOMMENDATION: Cancel unused subscriptions"),
     blank |-> Line("RECOMMENDATION: ", <<"">>, <<>>, <<>>,
                    TRUE, FALSE, "RECOMMENDATION:"),
     savings |-> Line("SAVINGS: $50/month", <<>>, <<50>>, <<>>,
                      TRUE, FALSE, "SAVINGS: $50/month"),
     difficulty |-> Line("DIFFICULTY: easy", <<>>, <<>>, <<"easy">>,
                         TRUE, FALSE, "DIFFICULTY: easy"),
     both |-> Line("SAVINGS: $30/month, DIFFICULTY: hard", <<>>, <<30>>, <<"hard">>,
                   TRUE, FALSE, "SAVINGS: $30/month, DIFFICULTY: hard"),
     item |-> Line("- Cook at home", <<>>, <<>>, <<>>,
                   FALSE, TRUE, "Cook at home"),
     plain |-> Line("Spend less", <<>>, <<>>, <<>>, FALSE, FALSE, "Spend less")]

\* the longest answer of well-formed lines, the longest answer of any lines
MaxLines == 6
MaxMixedLines == 3

\* what createChatCompletion may answer
ContentInputs ==
    {<<ResponseLines.plain>>,
     <<ResponseLines.plain, ResponseLines.plain, ResponseLines.item>>}
\* the answers the parser of the recommendations is driven with
ParserContents ==
    UNION {[1..n -> {ResponseLines.cook, ResponseLines.cancel,
                     ResponseLines.savings, ResponseLines.difficulty}] :
              n \in 1..MaxLines}
    \cup UNION {[1..n -> {ResponseLines[k] : k \in DOMAIN ResponseLines}] :
                  n \in 1..MaxMixedLines}
Responses ==
    {[kind |-> k, content |-> <<>>] : k \in {"error", "nodata", "nochoices", "empty"}}
    \cup {[kind |-> "content", content |-> c] : c \in ContentInputs}
ParserResponses == {[kind |-> "content", content |-> c] : c \in ParserContents}

NoResponse == [kind |-> "none", content |-> <<>>]
NoInput == [hook |-> "none"]
NoResult == [kind |-> "none"]
NoError == "none"

DailyInputs ==
    [hook : {"daily"}, transactions : TxCountInputs,
     hasBudgetStatus : BOOLEAN, budgetStatus : BudgetStatusInputs,
     spendingPatterns : {"given", "missing"}]

SavingsInputs ==
    [hook : {"savings"}, savingsGoal : {"given", "missing"},
     transactions : TxCountInputs, monthlyIncome : IncomeInputs,
     spendingPatterns : {"given", "missing"}, averageDaily : {10}]

\* the validation of useGenerateDailyInsight without its transaction test
DailyValidationNoTransactionTest(input) ==
    IF ~input.hasBudgetStatus
    THEN "Budget status is required to generate insights"
    ELSE IF input.spendingPatterns = "missing"
    THEN "Spending patterns are required to generate insights"
    ELSE NoError

\* useGenerateDailyInsight: the validation that opens mutationFn; the message
\* of the error it throws, NoError if the input passes
DailyValidation(input) ==
    IF input.transactions = 0
    THEN "At least one transaction is required to generate insights"
    ELSE IF ~input.hasBudgetStatus
    THEN "Budget status is required to generate insights"
    ELSE IF input.spendingPatterns = "missing"
    THEN "Spending patterns are required to generate insights"
    ELSE NoError

\* useGenerateSavingsRecommendation: the validation that opens mutationFn
SavingsValidation(input) ==
    IF input.savingsGoal = "missing"
    THEN "Savings goal is required"
    ELSE IF input.transactions = 0
    THEN "Transaction history is required to generate recommendations"
    ELSE IF input.monthlyIncome = 0 \/ input.monthlyIncome <= 0
    THEN "Valid monthly income is required"
    ELSE IF input.spendingPatterns = "missing"
    THEN "Spending patterns are required"
    ELSE NoError

ValidationErrors ==
    {"At least one transaction is required to generate insights",
     "Budget status is required to generate insights",
     "Spending patterns are required to generate insights",
     "Savings goal is required",
     "Transaction history is required to generate recommendations",
     "Valid monthly income is required",
     "Spending patterns are required"}

\* the error both mutations throw for a response they cannot use
ResponseError(hook, response) ==
    CASE response.kind = "error" ->
            IF hook = "daily" THEN "Failed to generate daily insight"
            ELSE "Failed to generate savings recommendations"
      [] response.kind = "nodata" -> "No response data received from AI service"
      [] response.kind = "nochoices" -> "No completion choices returned from AI service"
      [] response.kind = "empty" -> "Empty content returned from AI service"
      [] OTHER -> NoError

\* useGenerateDailyInsight: the sentiment, from spent / totalBudget
Sentiment(budgetStatus) ==
    LET budgetUtilization == JsDiv(budgetStatus.spent, budgetStatus.totalBudget)
    IN  IF JsLt(JsTimes(budgetUtilization, 10), 7) THEN "positive"
        ELSE IF JsGt(JsTimes(budgetUtilization, 10), 9) THEN "warning"
        ELSE "neutral"

\* the text of a content
TextOf(lines) == [i \in DOMAIN lines |-> lines[i].text]

\* lines.filter(...).map(s => s.replace(...).trim()): the items of a list
ListItems(lines) ==
    LET items == SelectSeq(lines, LAMBDA line : line.listItem)
    IN  [i \in DOMAIN items |-> <<items[i].stripped>>]

\* a daily insight whose sentiment follows the length of the answer
DailyResultSentimentOfText(input, content) ==
    [kind |-> "daily",
     insight |-> TextOf(SubSeq(content, 1, IF Len(content) < 2 THEN Len(content) ELSE 2)),
     suggestions |-> IF ListItems(SubSeq(content, 3, Len(content))) # <<>>
                     THEN ListItems(SubSeq(content, 3, Len(content)))
                     ELSE <<TextOf(content)>>,
     sentiment |-> IF Len(content) > 1 THEN "warning"
                   ELSE Sentiment(input.budgetStatus)]

\* useGenerateDailyInsight: the value it resolves with.  The insight is the
\* first two lines; a content has a line, so the insight is never empty.
DailyResult(input, content) ==
    [kind |-> "daily",
     insight |-> TextOf(SubSeq(content, 1, IF Len(content) < 2 THEN Len(content) ELSE 2)),
     suggestions |-> IF ListItems(SubSeq(content, 3, Len(content))) # <<>>
                     THEN ListItems(SubSeq(content, 3, Len(content)))
                     ELSE <<TextOf(content)>>,
     sentiment |-> Sentiment(input.budgetStatus)]

\* the record of the parser is complete: an action that is not empty, a
\* savings amount and a difficulty
IsComplete(currentAction) ==
    /\ currentAction.action \notin {<<>>, <<"">>}
    /\ currentAction.savings # <<>>
    /\ currentAction.difficulty # <<>>

RECURSIVE ParseLines(_, _, _)
\* useGenerateSavingsRecommendation: lines.forEach of the parser and the
\* push of the last record
ParseLines(lines, currentAction, specificActions) ==
    LET pushed == IF IsComplete(currentAction)
                  THEN Append(specificActions,
                              [action |-> currentAction.action,
                               potentialSavings |-> currentAction.savings[1],
                               difficulty |-> currentAction.difficulty[1]])
                  ELSE specificActions
    IN  IF lines = <<>> THEN pushed
        ELSE IF Head(lines).recommendation # <<>>
        THEN ParseLines(Tail(lines),
                        [action |-> Head(lines).recommendation,
                         savings |-> <<>>, difficulty |-> <<>>],
                        pushed)
        ELSE IF Head(lines).savings # <<>>
        THEN ParseLines(Tail(lines),
                        [currentAction EXCEPT !.savings = Head(lines).savings],
                        specificActions)
        ELSE IF Head(lines).difficulty # <<>>
        THEN ParseLines(Tail(lines),
                        [currentAction EXCEPT !.difficulty = Head(lines).difficulty],
                        specificActions)
        ELSE ParseLines(Tail(lines), currentAction, specificActions)

\* useGenerateSavingsRecommendation: specificActions as parsed
specificActions(content) ==
    ParseLines(content, [action |-> <<>>, savings |-> <<>>, difficulty |-> <<>>], <<>>)

\* useGenerateSavingsRecommendation: recommendations
recommendations(content) ==
    IF specificActions(content) # <<>>
    THEN [i \in DOMAIN specificActions(content) |-> specificActions(content)[i].action]
    ELSE ListItems(SelectSeq(content, LAMBDA line : ~line.marker))

\* useGenerateSavingsRecommendation: the value it resolves with.  The
\* default action saves Math.min(averageMonthlySpending * 0.1, 200), and
\* averageDaily * 30 * 0.1 is averageDaily * 3 on whole amounts.
SavingsResult(input, content) ==
    [kind |-> "savings",
     recommendations |-> IF recommendations(content) # <<>>
                         THEN recommendations(content)
                         ELSE <<TextOf(content)>>,
     projectedSavingsIncrease |-> SumOver(specificActions(content), "potentialSavings"),
     specificActions |->
        IF specificActions(content) # <<>> THEN specificActions(content)
        ELSE <<[action |-> <<"Review and optimize spending across all categories">>,
                potentialSavings |-> IF input.averageDaily * 3 < 200
                                     THEN input.averageDaily * 3 ELSE 200,
                difficulty |-> "medium"]>>]

\* mutationFn starts: the validation, then createChatCompletion is called
AiStart(input, validation) ==
    /\ aiHook' = input.hook
    /\ aiInput' = input
    /\ aiResponse' = NoResponse
    /\ aiResult' = NoResult
    /\ IF validation # NoError
       THEN /\ aiPc' = "error"
            /\ aiError' = validation
            /\ aiCalls' = 0
       ELSE /\ aiPc' = "calling"
            /\ aiError' = NoError
            /\ aiCalls' = 1

\* a mutation that calls createChatCompletion again after an unusable answer
AiFinishRetrying(response) ==
    /\ aiResponse' = response
    /\ IF ResponseError(aiHook, response) # NoError
       THEN /\ aiPc' = "calling"
            /\ aiCalls' = aiCalls + 1
            /\ aiError' = NoError
            /\ aiResult' = NoResult
       ELSE /\ aiPc' = "success"
            /\ aiCalls' = aiCalls
            /\ aiError' = NoError
            /\ aiResult' = IF aiHook = "daily"
                           THEN DailyResult(aiInput, response.content)
                           ELSE SavingsResult(aiInput, response.content)
    /\ UNCHANGED <<aiHook, aiInput>>

\* createChatCompletion has answered: the rest of mutationFn
AiFinish(response) ==
    /\ aiResponse' = response
    /\ IF ResponseError(aiHook, response) # NoError
       THEN /\ aiPc' = "error"
            /\ aiError' = ResponseError(aiHook, response)
            /\ aiResult' = NoResult
       ELSE /\ aiPc' = "success"
            /\ aiError' = NoError
            /\ aiResult' = IF aiHook = "daily"
                           THEN DailyResult(aiInput, response.content)
                           ELSE SavingsResult(aiInput, response.content)
    /\ UNCHANGED <<aiHook, aiInput, aiCalls>>

\* a caller runs the daily-insight mutation
DailyInsightMutate(input) ==
    /\ aiPc # "calling"
    /\ AiStart(input, DailyValidation(input))
    /\ UNCHANGED notAi

\* a caller runs the savings-recommendation mutation
SavingsRecommendationMutate(input) ==
    /\ aiPc # "calling"
    /\ AiStart(input, SavingsValidation(input))
    /\ UNCHANGED notAi

ChatCompletionResponds(response) ==
    /\ aiPc = "calling"
    /\ AiFinish(response)
    /\ UNCHANGED notAi

AiNext ==
    \/ \E input \in DailyInputs : DailyInsightMutate(input)
    \/ \E input \in SavingsInputs : SavingsRecommendationMutate(input)
    \/ \E response \in Responses : ChatCompletionResponds(response)

\* the recommendations are asked for with a complete input, any answer comes
ParserNext ==
    \/ \E input \in {i \in SavingsInputs : SavingsValidation(i) = NoError} :
          SavingsRecommendationMutate(input)
    \/ \E response \in ParserResponses : ChatCompletionResponds(response)

----------------------------------------------------------------------------
(* Application shell: App, OnboardingFlow, Dashboard, DashboardOverview,   *)
(* PricingModal, PredictiveAlert, AICoachingModal                          *)

MaxInsightCalls == 2
MaxAlerts == 1
\* the stored data a session may start from
TransactionCountInputs == {0, 4}
DayInputs == {1, 15}
BudgetStoreInputs == {<<>>, <<Budget(4, 5, 50)>>, <<Budget(0, 0, 50)>>}

NotMounted ==
    [mounted |-> FALSE, transactions |-> 0, yesterdayTxs |-> 0,
     dailyInsight |-> FALSE, alerts |-> 0]

NoModals ==
    [dashPricing |-> FALSE, ovPricing |-> FALSE, coaching |-> FALSE,
     pricingHighlight |-> "", dashSelected |-> "premium",
     ovSelected |-> "premium", upgradedAs |-> "none"]

HighlightInsight ==
    "AI daily financial coach with personalized insights based on your spending patterns"
HighlightAll == "Full access to all premium features"
HighlightPredictive == "Predictive spending alerts that warn you before you overspend"

\* a premium check that every existing profile passes
isPremiumAnyProfile == userProfile # "none"

\* Dashboard and DashboardOverview: the entitlement test
isPremium == userProfile = "Premium"

\* DashboardOverview.loadDashboardData: the state it sets
LoadedOverview ==
    [mounted |-> TRUE, transactions |-> env.transactions,
     yesterdayTxs |-> env.yesterdayTxs, dailyInsight |-> env.insightToday,
     alerts |-> IF env.unreadAlerts < 5 THEN env.unreadAlerts ELSE 5]

\* DashboardOverview: totalSpent / (day / 30) - totalBudget, 0 without a budget
projectedOverspend ==
    IF totalBudget > 0
    THEN Fin(totalSpent * 30 - totalBudget * env.day, env.day)
    ELSE Num(0)

\* what DashboardOverview renders
DailyInsightCardShown == overview.mounted /\ overview.dailyInsight /\ isPremium
GenerateCardShown ==
    overview.mounted /\ ~overview.dailyInsight /\ overview.transactions > 0
SmartAlertsShown == overview.mounted /\ overview.alerts > 0 /\ isPremium
PredictiveAlertRendered ==
    overview.mounted /\ JsGt(projectedOverspend, 50) /\ overview.transactions > 3
UpgradeBannerShown == overview.mounted /\ ~isPremium

\* PredictiveAlert: the projection for a premium account, a locked card otherwise
PredictiveAlertView ==
    IF ~PredictiveAlertRendered THEN "none"
    ELSE IF isPremium THEN "projection" ELSE "locked"

\* AICoachingModal: the insights for a premium account, the offer otherwise
CoachingModalView ==
    IF ~modals.coaching THEN "closed"
    ELSE IF ~isPremium THEN "offer" ELSE "insights"

\* OnboardingFlow.onSubmit, then App.handleOnboardingComplete
OnboardingSubmit ==
    /\ userProfile = "none"
    /\ profileStore' = "Free"
    /\ userProfile' = "Free"
    /\ UNCHANGED <<overview, modals, insightCalls, env, activeTab, budgets,
                   budgetStore, aiVars>>
    /\ UNCHANGED notApp

\* the Overview tab is opened: DashboardOverview mounts, loadDashboardData
SelectOverviewTab ==
    /\ userProfile # "none"
    /\ activeTab # "overview"
    /\ activeTab' = "overview"
    /\ overview' = LoadedOverview
    /\ budgets' = budgetStore
    /\ UNCHANGED <<profileStore, userProfile, modals, insightCalls, env,
                   budgetStore, aiVars>>
    /\ UNCHANGED notApp

\* another tab is opened: DashboardOverview unmounts; its state, its pricing
\* modal and its mutation are dropped, a request in flight stays in flight
SelectAnalyticsTab ==
    /\ userProfile # "none"
    /\ activeTab = "overview"
    /\ activeTab' = "analytics"
    /\ overview' = NotMounted
    /\ budgets' = <<>>
    /\ modals' = [modals EXCEPT !.ovPricing = FALSE, !.pricingHighlight = "",
                                !.ovSelected = "premium"]
    /\ aiHook' = "none" /\ aiInput' = NoInput /\ aiPc' = "idle"
    /\ aiCalls' = 0 /\ aiResponse' = NoResponse
    /\ aiResult' = NoResult /\ aiError' = NoError
    /\ UNCHANGED <<profileStore, userProfile, insightCalls, env, budgetStore>>
    /\ UNCHANGED notApp

\* DashboardOverview.handleGenerateInsight, up to the await of the mutation
HandleGenerateInsight ==
    /\ GenerateCardShown
    /\ aiPc # "calling"                      \* the button is disabled while pending
    /\ IF ~isPremium
       THEN /\ modals' = [modals EXCEPT !.ovPricing = TRUE,
                                        !.pricingHighlight = HighlightInsight]
            /\ UNCHANGED <<insightCalls, aiVars>>
       ELSE IF overview.yesterdayTxs = 0
       THEN UNCHANGED <<modals, insightCalls, aiVars>>
       ELSE /\ insightCalls.started < MaxInsightCalls
            /\ LET input == [hook |-> "daily",
                             transactions |-> overview.yesterdayTxs,
                             hasBudgetStatus |-> TRUE,
                             budgetStatus |-> [totalBudget |-> totalBudget,
                                               spent |-> totalSpent],
                             spendingPatterns |-> "given"]
               IN  /\ AiStart(input, DailyValidation(input))
                   /\ insightCalls' =
                        IF DailyValidation(input) = NoError
                        THEN [started |-> insightCalls.started + 1,
                              outstanding |-> insightCalls.outstanding + 1]
                        ELSE insightCalls
            /\ UNCHANGED modals
    /\ UNCHANGED <<profileStore, userProfile, overview, env, budgetVars>>
    /\ UNCHANGED notApp

\* the request of the mounted overview is answered: the mutation ends and
\* handleGenerateInsight resumes (loadDashboardData after a success)
InsightResponds(response) ==
    /\ overview.mounted
    /\ aiPc = "calling"
    /\ AiFinish(response)
    /\ insightCalls' = [insightCalls EXCEPT !.outstanding = @ - 1]
    /\ overview' = IF ResponseError(aiHook, response) = NoError
                   THEN LoadedOverview ELSE overview
    /\ UNCHANGED <<profileStore, userProfile, modals, env, budgetVars>>
    /\ UNCHANGED notApp

\* a request whose overview was unmounted is answered: nothing is shown
OrphanResponds ==
    /\ insightCalls.outstanding > (IF aiPc = "calling" THEN 1 ELSE 0)
    /\ insightCalls' = [insightCalls EXCEPT !.outstanding = @ - 1]
    /\ UNCHANGED <<profileStore, userProfile, overview, modals, env,
                   budgetVars, aiVars>>
    /\ UNCHANGED notApp

\* DashboardOverview.openPricingModal from the banner's View Plans button
ViewPlans ==
    /\ UpgradeBannerShown
    /\ modals' = [modals EXCEPT !.ovPricing = TRUE, !.pricingHighlight = HighlightAll]
    /\ UNCHANGED <<profileStore, userProfile, overview, insightCalls, env,
                   budgetVars, aiVars>>
    /\ UNCHANGED notApp

\* the Upgrade Now button of the locked PredictiveAlert
PredictiveUpgrade ==
    /\ PredictiveAlertView = "locked"
    /\ modals' = [modals EXCEPT !.ovPricing = TRUE,
                                !.pricingHighlight = HighlightPredictive]
    /\ UNCHANGED <<profileStore, userProfile, overview, insightCalls, env,
                   budgetVars, aiVars>>
    /\ UNCHANGED notApp

\* Dashboard: the header's AI Coach button
OpenCoaching ==
    /\ userProfile # "none"
    /\ ~modals.coaching
    /\ modals' = [modals EXCEPT !.coaching = TRUE]
    /\ UNCHANGED <<profileStore, userProfile, overview, insightCalls, env,
                   budgetVars, aiVars>>
    /\ UNCHANGED notApp

\* AICoachingModal's upgrade button: Dashboard closes it and opens its pricing modal
CoachingUpgrade ==
    /\ CoachingModalView = "offer"
    /\ modals' = [modals EXCEPT !.coaching = FALSE, !.dashPricing = TRUE]
    /\ UNCHANGED <<profileStore, userProfile, overview, insightCalls, env,
                   budgetVars, aiVars>>
    /\ UNCHANGED notApp

\* Dashboard: the header's Upgrade button, rendered for a free account
OpenDashboardPricing ==
    /\ userProfile # "none"
    /\ ~isPremium
    /\ modals' = [modals EXCEPT !.dashPricing = TRUE]
    /\ UNCHANGED <<profileStore, userProfile, overview, insightCalls, env,
                   budgetVars, aiVars>>
    /\ UNCHANGED notApp

\* a dialog is dismissed (onOpenChange(false))
CloseDialogs ==
    /\ modals.dashPricing \/ modals.ovPricing \/ modals.coaching
    /\ modals' = [modals EXCEPT !.dashPricing = FALSE, !.ovPricing = FALSE,
                                !.coaching = FALSE]
    /\ UNCHANGED <<profileStore, userProfile, overview, insightCalls, env,
                   budgetVars, aiVars>>
    /\ UNCHANGED notApp

\* an upgrade that stores the pricing tier it is called with
handleUpgradeStoringTier(tier) ==
    /\ profileStore' = tier
    /\ userProfile' = tier

\* Dashboard.handleUpgrade and DashboardOverview.handleUpgrade: whatever the
\* pricing tier, the stored profile becomes Premium and is handed to App
handleUpgrade(tier) ==
    /\ profileStore' = "Premium"
    /\ userProfile' = "Premium"

\* an upgrade button of Dashboard's PricingModal: setSelectedTier(button),
\* then PricingModal.handleUpgrade, which reads selectedTier of this render
DashboardPricingUpgrade(button) ==
    /\ modals.dashPricing
    /\ handleUpgrade(modals.dashSelected)
    /\ modals' = [modals EXCEPT !.dashPricing = FALSE, !.dashSelected = button,
                                !.upgradedAs = modals.dashSelected]
    /\ UNCHANGED <<overview, insightCalls, env, budgetVars, aiVars>>
    /\ UNCHANGED notApp

\* the same button of DashboardOverview's PricingModal
OverviewPricingUpgrade(button) ==
    /\ modals.ovPricing
    /\ handleUpgrade(modals.ovSelected)
    /\ modals' = [modals EXCEPT !.ovPricing = FALSE, !.ovSelected = button,
                                !.upgradedAs = modals.ovSelected]
    /\ UNCHANGED <<overview, insightCalls, env, budgetVars, aiVars>>
    /\ UNCHANGED notApp

AppNext ==
    \/ OnboardingSubmit
    \/ SelectOverviewTab
    \/ SelectAnalyticsTab
    \/ HandleGenerateInsight
    \/ \E response \in Responses : InsightResponds(response)
    \/ OrphanResponds
    \/ ViewPlans
    \/ PredictiveUpgrade
    \/ OpenCoaching
    \/ CoachingUpgrade
    \/ OpenDashboardPricing
    \/ CloseDialogs
    \/ \E button \in {"premium", "yearly"} : DashboardPricingUpgrade(button)
    \/ \E button \in {"premium", "yearly"} : OverviewPricingUpgrade(button)

----------------------------------------------------------------------------
(* Calendar: Date and date-fns, on local time                              *)
(*                                                                         *)
(* A day is counted from Sunday 2023-01-01 (day 0); the calendar covers    *)
(* 2023 to 2025.  An instant is a day and a time of day, of which three    *)
(* are told apart: 0 is 00:00:00.000, 2 is 23:59:59.999, 1 is any time     *)
(* between them.                                                           *)

YearStart(y) == CASE y = 2023 -> 0 [] y = 2024 -> 365 [] y = 2025 -> 731

DaysInMonth(y, m) ==
    CASE m \in {4, 6, 9, 11} -> 30
      [] m = 2 -> IF y % 4 = 0 THEN 29 ELSE 28
      [] OTHER -> 31

RECURSIVE DaysBeforeMonth(_, _)
DaysBeforeMonth(y, m) ==
    IF m = 1 THEN 0 ELSE DaysBeforeMonth(y, m - 1) + DaysInMonth(y, m - 1)

\* new Date(y, m, d): a day of the month past its end runs into the next month
DayOf(y, m, d) == YearStart(y) + DaysBeforeMonth(y, m) + d - 1

Instant(day, tod) == [day |-> day, tod |-> tod]

\* the year, the month (counted from 1) and the day of the month of every day
Dates ==
    [day \in 0..1095 |->
        LET y == IF day < 365 THEN 2023 ELSE IF day < 731 THEN 2024 ELSE 2025
            m == CHOOSE m \in 1..12 :
                    DayOf(y, m, 1) <= day /\ day < DayOf(y, m, 1) + DaysInMonth(y, m)
        IN  [year |-> y, month |-> m, date |-> day - DayOf(y, m, 1) + 1]]

getFullYear(t) == Dates[t.day].year
getMonth(t) == Dates[t.day].month
getDate(t) == Dates[t.day].date
\* 0 is Sunday, 6 is Saturday
getDay(t) == t.day % 7

\* a <= b on Dates
DateLeq(a, b) == a.day < b.day \/ (a.day = b.day /\ a.tod <= b.tod)

startOfWeek(t) == Instant(t.day - getDay(t), 0)
endOfWeek(t) == Instant(t.day - getDay(t) + 6, 2)
startOfMonth(t) == Instant(t.day - getDate(t) + 1, 0)
endOfMonth(t) ==
    Instant(t.day - getDate(t) + DaysInMonth(getFullYear(t), getMonth(t)), 2)
\* the quarter starts with the month 3 * ((m - 1) \div 3) + 1
startOfQuarter(t) ==
    Instant(DayOf(getFullYear(t), 3 * ((getMonth(t) - 1) \div 3) + 1, 1), 0)
endOfQuarter(t) == endOfMonth(Instant(startOfQuarter(t).day + 70, 0))
startOfYear(t) == Instant(YearStart(getFullYear(t)), 0)
endOfYear(t) == endOfMonth(Instant(YearStart(getFullYear(t)) + 340, 0))

\* subMonths(t, 1): the same day of the month before, or that month's last day
subMonths(t) ==
    LET y == IF getMonth(t) = 1 THEN getFullYear(t) - 1 ELSE getFullYear(t)
        m == IF getMonth(t) = 1 THEN 12 ELSE getMonth(t) - 1
        d == IF getDate(t) < DaysInMonth(y, m) THEN getDate(t) ELSE DaysInMonth(y, m)
    IN  Instant(DayOf(y, m, d), t.tod)

----------------------------------------------------------------------------
(* Spending analytics: SpendingAnalytics                                   *)

MaxTransactions == 3
TimeFilters == {"weekly", "monthly", "quarterly", "yearly"}
\* two categories of TransactionCategory
Food == 1
Entertainment == 2

Transaction(amount, category, time) ==
    [amount |-> amount, category |-> category, time |-> time]

\* the instants the analytics are opened at: Wednesday 2024-01-03 and
\* Wednesday 2024-05-15
NowInputs == {Instant(DayOf(2024, 1, 3), 1), Instant(DayOf(2024, 5, 15), 1)}

\* stored transactions the metric rules are driven with; around 2024-05-15
\* they lie in the first week of the month, on a weekend, on weekdays and in
\* the month before
RuleInputs ==
    {Transaction(63, Food, Instant(DayOf(2024, 5, 3), 1)),
     Transaction(117, Food, Instant(DayOf(2024, 5, 14), 1)),
     Transaction(2, Food, Instant(DayOf(2024, 5, 12), 1)),
     Transaction(5, Food, Instant(DayOf(2024, 5, 13), 1)),
     Transaction(23, Entertainment, Instant(DayOf(2024, 5, 14), 1)),
     Transaction(19, Entertainment, Instant(DayOf(2024, 5, 14), 1)),
     Transaction(20, Entertainment, Instant(DayOf(2024, 4, 10), 1)),
     Transaction(5, Food, Instant(DayOf(2024, 4, 20), 1)),
     Transaction(0, Food, Instant(DayOf(2024, 4, 10), 1))}

\* stored transactions the windows are driven with: the first and the last
\* instants of the weeks, months, quarters and years around 2024-01-03
WindowInputs ==
    {Transaction(1, Food, t) :
        t \in {Instant(DayOf(2023, 1, 1), 0),
               Instant(DayOf(2023, 9, 30), 2), Instant(DayOf(2023, 10, 1), 0),
               Instant(DayOf(2023, 11, 30), 2), Instant(DayOf(2023, 12, 1), 0),
               Instant(DayOf(2023, 12, 23), 2), Instant(DayOf(2023, 12, 24), 0),
               Instant(DayOf(2023, 12, 30), 1), Instant(DayOf(2023, 12, 31), 0),
               Instant(DayOf(2023, 12, 31), 1), Instant(DayOf(2023, 12, 31), 2),
               Instant(DayOf(2024, 1, 1), 0), Instant(DayOf(2024, 1, 6), 2),
               Instant(DayOf(2024, 1, 7), 0)}}

\* SpendingAnalytics.dateRange
dateRange ==
    CASE timeFilter = "weekly" -> [start |-> startOfWeek(now), end |-> endOfWeek(now)]
      [] timeFilter = "monthly" -> [start |-> startOfMonth(now), end |-> endOfMonth(now)]
      [] timeFilter = "quarterly" ->
            [start |-> startOfQuarter(now), end |-> endOfQuarter(now)]
      [] timeFilter = "yearly" -> [start |-> startOfYear(now), end |-> endOfYear(now)]

\* SpendingAnalytics.previousPeriodTransactions: prevStart and prevEnd.
\* setDate(getDate() - 1) gives the same time one day earlier, setFullYear(
\* getFullYear() - 1) the same month, day and time a year earlier.
previousRange ==
    CASE timeFilter = "weekly" ->
            LET prevEnd == Instant(dateRange.start.day - 1, dateRange.start.tod)
            IN  [start |-> startOfWeek(prevEnd), end |-> prevEnd]
      [] timeFilter = "monthly" ->
            LET prevMonth == subMonths(now)
            IN  [start |-> startOfMonth(prevMonth), end |-> endOfMonth(prevMonth)]
      [] timeFilter = "quarterly" ->
            LET prevEnd == Instant(dateRange.start.day - 1, dateRange.start.tod)
            IN  [start |-> startOfQuarter(prevEnd), end |-> prevEnd]
      [] timeFilter = "yearly" ->
            LET prevYear == Instant(DayOf(getFullYear(now) - 1, getMonth(now),
                                          getDate(now)), now.tod)
            IN  [start |-> startOfYear(prevYear), end |-> endOfYear(prevYear)]

\* txDate >= range.start && txDate <= range.end
InRange(t, range) == DateLeq(range.start, t) /\ DateLeq(t, range.end)

filteredTransactions ==
    LET range == dateRange
    IN  SelectSeq(transactions, LAMBDA tx : InRange(tx.time, range))
previousPeriodTransactions ==
    LET range == previousRange
    IN  SelectSeq(transactions, LAMBDA tx : InRange(tx.time, range))

totalSpending == SumOver(filteredTransactions, "amount")
previousTotalSpending == SumOver(previousPeriodTransactions, "amount")

\* the change computed against the current total
changePercentageOfCurrent ==
    IF previousTotalSpending = 0
    THEN (IF totalSpending > 0 THEN Num(100) ELSE Num(0))
    ELSE Percent(totalSpending - previousTotalSpending, totalSpending)

\* the change computed without the test for an empty previous window
changePercentageUnguarded ==
    Percent(totalSpending - previousTotalSpending, previousTotalSpending)

\* SpendingAnalytics.changePercentage
changePercentage ==
    LET previous == previousTotalSpending
    IN  IF previous = 0
        THEN (IF totalSpending > 0 THEN Num(100) ELSE Num(0))
        ELSE Percent(totalSpending - previous, previous)

\* the sum of the amounts of one category
CategoryTotal(txs, category) ==
    SumOver(SelectSeq(txs, LAMBDA tx : tx.category = category), "amount")

RECURSIVE SortByValue(_, _)
\* Object.entries(categoryTotals) ... .sort((a, b) => b.value - a.value): the
\* entries come in ascending order of the key and the sort is stable
SortByValue(categories, txs) ==
    IF categories = {} THEN <<>>
    ELSE LET first == CHOOSE c \in categories :
                        \A o \in categories :
                            \/ CategoryTotal(txs, c) > CategoryTotal(txs, o)
                            \/ CategoryTotal(txs, c) = CategoryTotal(txs, o) /\ c <= o
         IN  <<[category |-> first, value |-> CategoryTotal(txs, first)]>>
             \o SortByValue(categories \ {first}, txs)

\* SpendingAnalytics.categoryData
categoryData ==
    LET txs == filteredTransactions
    IN  SortByValue({txs[i].category : i \in DOMAIN txs}, txs)

\* SpendingAnalytics.previousCategoryData[category] || 0
previousCategoryData(category) == CategoryTotal(previousPeriodTransactions, category)

\* SpendingAnalytics.weekendVsWeekday
weekendVsWeekday ==
    LET txs == filteredTransactions
    IN  [weekend |-> SumOver(SelectSeq(txs, LAMBDA tx : getDay(tx.time) \in {0, 6}),
                             "amount"),
         weekday |-> SumOver(SelectSeq(txs, LAMBDA tx : getDay(tx.time) \notin {0, 6}),
                             "amount")]

\* Math.round(x): the nearest integer, a half going up
MathRound(x) == IF x.k = "fin" THEN Num((2 * x.n + x.d) \div (2 * x.d)) ELSE x

(* Comparisons against a product with a decimal constant, for whole        *)
(* amounts a and b, as the double arithmetic decides them.  The double     *)
(* nearest to 0.4 lies above 0.4, so b * 0.4 is never rounded below the    *)
(* exact product and a > b * 0.4 is decided as 5a > 2b.  The double        *)
(* nearest to 0.35 lies below 0.35 by 0.4 * 2^-54: when 0.35 * b is the    *)
(* whole number a, b * 0.35 is rounded to the double below a exactly when  *)
(* a lies in the top eighth of its binade, (7/8 * 2^e, 2^e], and then      *)
(* a > b * 0.35 holds (63 > 180 * 0.35 is true).                           *)
GreaterThan35Percent(a, b) ==
    \/ 20 * a > 7 * b
    \/ /\ 20 * a = 7 * b
       /\ \E e \in 1..30 : 2^(e - 1) < a /\ a <= 2^e /\ 8 * a > 7 * 2^e

\* an insight; the category is 0 where the text names none
Insight(kind, category, percent) ==
    [kind |-> kind, category |-> category, percent |-> percent]

\* the weekend rule firing from 40% on
weekendInsightFromTwoFifths ==
    LET sums == weekendVsWeekday
        weekend == sums.weekend
        weekday == sums.weekday
    IN  IF 5 * weekend >= 2 * weekday
        THEN <<Insight("weekend", 0,
                 MathRound(JsMinus(JsTimes(JsDiv(5 * weekend, 2 * weekday), 100), 100)))>>
        ELSE <<>>

\* insights: the weekend rule.  weekend / (weekday / 5 * 2) is 5 weekend / (2 weekday)
weekendInsight ==
    LET sums == weekendVsWeekday
        weekend == sums.weekend
        weekday == sums.weekday
    IN  IF 5 * weekend > 2 * weekday
        THEN <<Insight("weekend", 0,
                 MathRound(JsMinus(JsTimes(JsDiv(5 * weekend, 2 * weekday), 100), 100)))>>
        ELSE <<>>

RECURSIVE categoryInsightsFromFifteen(_)
\* the category rule firing from 15% on
categoryInsightsFromFifteen(data) ==
    IF data = <<>> THEN <<>>
    ELSE LET category == data[1]
             prevAmount == previousCategoryData(category.category)
             increase == Percent(category.value - prevAmount, prevAmount)
         IN  (IF prevAmount > 0 /\ JsGeq(increase, 15)
              THEN <<Insight("category", category.category, MathRound(increase))>>
              ELSE <<>>)
             \o categoryInsightsFromFifteen(Tail(data))

RECURSIVE categoryInsights(_)
\* insights: the category rule, over categoryData in its order.  Every
\* category has a name of its own in CATEGORY_NAMES, so categoryKey is found.
categoryInsights(data) ==
    IF data = <<>> THEN <<>>
    ELSE LET category == data[1]
             prevAmount == previousCategoryData(category.category)
             increase == Percent(category.value - prevAmount, prevAmount)
         IN  (IF prevAmount > 0 /\ JsGt(increase, 15)
              THEN <<Insight("category", category.category, MathRound(increase))>>
              ELSE <<>>)
             \o categoryInsights(Tail(data))

\* insights: the spending of the days 1 to 7
firstWeekSpending ==
    SumOver(SelectSeq(filteredTransactions, LAMBDA tx : getDate(tx.time) <= 7), "amount")

\* insights: the first-week rule
firstWeekInsight ==
    IF timeFilter = "monthly" /\ GreaterThan35Percent(firstWeekSpending, totalSpending)
    THEN <<Insight("firstWeek", 0, Num(0))>>
    ELSE <<>>

\* the reduced-spending rule firing from a reduction of 5% on
reducedInsightFromFive ==
    IF JsLeq(changePercentage, -5)
    THEN <<Insight("reduced", 0, JsTimes(MathRound(changePercentage), -1))>>
    ELSE <<>>

\* insights: the reduced-spending rule.  Math.abs negates the rounded number,
\* which is finite and negative here.
reducedInsight ==
    LET change == changePercentage
    IN  IF JsLt(change, -5)
        THEN <<Insight("reduced", 0, JsTimes(MathRound(change), -1))>>
        ELSE <<>>

\* a list that ends with the first rule that fires
insightsFirstMatch ==
    IF weekendInsight # <<>> THEN weekendInsight
    ELSE IF categoryInsights(categoryData) # <<>> THEN categoryInsights(categoryData)
    ELSE IF firstWeekInsight # <<>> THEN firstWeekInsight
    ELSE reducedInsight

\* SpendingAnalytics.insights
insights ==
    weekendInsight \o categoryInsights(categoryData) \o firstWeekInsight \o reducedInsight

\* the card of the insights is rendered
InsightsCardShown == activeTab = "analytics" /\ Len(insights) > 0

\* SpendingAnalytics.loadTransactions finds one more stored transaction
TransactionLoaded(tx) ==
    /\ activeTab = "analytics"
    /\ Len(transactions) < MaxTransactions
    /\ transactions' = Append(transactions, tx)
    /\ UNCHANGED <<timeFilter, now>>
    /\ UNCHANGED notAnalytics

\* the time filter's Tabs: setTimeFilter
SelectTimeFilter(filter) ==
    /\ activeTab = "analytics"
    /\ filter # timeFilter
    /\ timeFilter' = filter
    /\ UNCHANGED <<transactions, now>>
    /\ UNCHANGED notAnalytics

AnalyticsNext ==
    \/ \E tx \in RuleInputs : TransactionLoaded(tx)
    \/ \E filter \in TimeFilters : SelectTimeFilter(filter)

WindowsNext ==
    \/ \E tx \in WindowInputs : TransactionLoaded(tx)
    \/ \E filter \in TimeFilters : SelectTimeFilter(filter)

----------------------------------------------------------------------------
(* Specifications, one per component; the other components stay as they    *)
(* are constructed                                                         *)

NoCalls == [started |-> 0, outstanding |-> 0]
IdleEnv ==
    [transactions |-> 0, yesterdayTxs |-> 0, insightToday |-> FALSE,
     unreadAlerts |-> 0, day |-> 1]

\* every component as constructed, nothing stored
InitEmpty ==
    /\ budgetStore = <<>> /\ budgets = <<>> /\ activeTab = "budgets"
    /\ goalStore = <<>> /\ goals = <<>> /\ goalOps = <<>> /\ toasts = NoToast
    /\ subscriptions = <<>>
    /\ integrations = IntegrationsAtMount /\ timers = <<>> /\ lastClick = "none"
    /\ aiHook = "none" /\ aiInput = NoInput /\ aiPc = "idle"
    /\ aiCalls = 0 /\ aiResponse = NoResponse
    /\ aiResult = NoResult /\ aiError = NoError
    /\ profileStore = "none" /\ userProfile = "none"
    /\ overview = NotMounted /\ modals = NoModals
    /\ insightCalls = NoCalls /\ env = IdleEnv
    /\ transactions = <<>> /\ timeFilter = "monthly"
    /\ now = Instant(DayOf(2024, 5, 15), 1)

SpecBudget == InitEmpty /\ [][BudgetNext]_vars
SpecGoals == InitEmpty /\ [][GoalNext]_vars
SpecContributions == InitEmpty /\ [][ContributionNext]_vars
SpecAI == InitEmpty /\ [][AiNext]_vars
SpecParser == InitEmpty /\ [][ParserNext]_vars
SpecSubscriptions == InitEmpty /\ [][SubscriptionNext]_vars
SpecIntegrations == InitEmpty /\ [][IntegrationsNext]_vars

\* the dashboard of an account on its first tab, the analytics
InitAnalytics ==
    /\ budgetStore = <<>> /\ budgets = <<>> /\ activeTab = "analytics"
    /\ goalStore = <<>> /\ goals = <<>> /\ goalOps = <<>> /\ toasts = NoToast
    /\ subscriptions = <<>>
    /\ integrations = IntegrationsAtMount /\ timers = <<>> /\ lastClick = "none"
    /\ aiHook = "none" /\ aiInput = NoInput /\ aiPc = "idle"
    /\ aiCalls = 0 /\ aiResponse = NoResponse
    /\ aiResult = NoResult /\ aiError = NoError
    /\ profileStore \in {"Free", "Premium"} /\ userProfile = profileStore
    /\ overview = NotMounted /\ modals = NoModals
    /\ insightCalls = NoCalls /\ env = IdleEnv
    /\ transactions = <<>> /\ timeFilter = "monthly"
    /\ now \in NowInputs
SpecAnalytics == InitAnalytics /\ [][AnalyticsNext]_vars
SpecWindows == InitAnalytics /\ [][WindowsNext]_vars

\* the application: onboarding, the dashboard's overview and its daily
\* insight, over the data a session may find stored
Init ==
    /\ budgetStore \in BudgetStoreInputs
    /\ budgets = <<>> /\ activeTab = "analytics"
    /\ goalStore = <<>> /\ goals = <<>> /\ goalOps = <<>> /\ toasts = NoToast
    /\ subscriptions = <<>>
    /\ integrations = IntegrationsAtMount /\ timers = <<>> /\ lastClick = "none"
    /\ aiHook = "none" /\ aiInput = NoInput /\ aiPc = "idle"
    /\ aiCalls = 0 /\ aiResponse = NoResponse
    /\ aiResult = NoResult /\ aiError = NoError
    /\ profileStore = "none" /\ userProfile = "none"
    /\ overview = NotMounted /\ modals = NoModals
    /\ insightCalls = NoCalls
    /\ env \in [transactions : TransactionCountInputs, yesterdayTxs : {0, 1},
                insightToday : BOOLEAN, unreadAlerts : 0..MaxAlerts,
                day : DayInputs]
    /\ env.yesterdayTxs <= env.transactions
    /\ transactions = <<>> /\ timeFilter = "monthly"
    /\ now = Instant(DayOf(2024, 5, 15), 1)
Next == AppNext
Spec == Init /\ [][Next]_vars

----------------------------------------------------------------------------
(* Claims                                                                  *)

\* a displayed percentage lies in [0,100]
InDisplayRange(x) == JsGeq(x, 0) /\ JsLeq(x, 100)

\* C1: for every budget with monthly_limit > 0, getBudgetStatus is "exceeded"
\* whenever current_spent >= monthly_limit, otherwise "warning" when
\* current_spent / monthly_limit * 100 >= alert_threshold, otherwise "ok".
C1_BudgetStatusContract ==
    activeTab = "budgets" =>
        \A i \in DOMAIN budgets :
            LET b == budgets[i]
            IN  b.monthly_limit > 0 =>
                    BudgetRows[i].status =
                        IF b.current_spent >= b.monthly_limit THEN "exceeded"
                        ELSE IF b.current_spent * 100 >= b.alert_threshold * b.monthly_limit
                             THEN "warning"
                             ELSE "ok"

\* C1: a budget spent to its limit, with the alert threshold reached, is on display
C1_SpentToLimit ==
    /\ activeTab = "budgets"
    /\ \E i \in DOMAIN budgets :
          /\ budgets[i].monthly_limit > 0
          /\ budgets[i].current_spent >= budgets[i].monthly_limit
          /\ budgets[i].alert_threshold <= 100

\* C6: for every budget whose monthly_limit is 0 the utilization percentage
\* is 0, for the per-budget figure of the budget tracker and for the
\* aggregate figure of the overview.
C6_ZeroLimitUtilizationIsZero ==
    /\ activeTab = "budgets" =>
          \A i \in DOMAIN budgets :
              budgets[i].monthly_limit = 0 => JsEq(BudgetRows[i].percentage, 0)
    /\ activeTab = "overview" =>
          (totalBudget = 0 => JsEq(budgetPercentage, 0))

\* C6: a budget with limit 0 is on display in the tracker
C6_ZeroLimitShown ==
    /\ activeTab = "budgets"
    /\ \E i \in DOMAIN budgets : budgets[i].monthly_limit = 0

\* C7: every budget progress value handed to a progress bar lies in [0,100],
\* for the per-budget bars and for the overview's monthly-budget bar, also
\* when the spent amount exceeds the limit.
C7_BudgetProgressInRange ==
    /\ activeTab = "budgets" =>
          \A i \in DOMAIN budgets : InDisplayRange(BudgetRows[i].progress)
    /\ activeTab = "overview" => InDisplayRange(OverviewBudgetProgress)

\* C7: the overview shows budgets whose spending exceeds their limit
C7_OverviewOverspent ==
    activeTab = "overview" /\ totalBudget > 0 /\ totalSpent > totalBudget

\* C2: after any sequence of goal create, goal edit and add-contribution
\* operations, every stored goal has is_completed = true exactly when its
\* current_amount >= its target_amount.
C2_CompletedIffTargetReached ==
    \A i \in DOMAIN goalStore :
        goalStore[i].is_completed <=>
            goalStore[i].current_amount >= goalStore[i].target_amount

\* C2: a goal is stored whose saved amount has reached its target
C2_TargetReached ==
    \E i \in DOMAIN goalStore :
        goalStore[i].current_amount >= goalStore[i].target_amount

\* the thresholds p with old% < p <= new%, by exact arithmetic
Crossed(old, new, target) ==
    {p \in {25, 50, 75, 100} : old * 100 < p * target /\ p * target <= new * 100}

\* C3: for a contribution c > 0 to a goal with target > 0, a milestone is
\* announced iff some threshold p in {25,50,75,100} has old% < p <= new%;
\* the one announced is the lowest such p, even when several are crossed.
C3_LowestCrossedMilestone ==
    (toasts.kind \in {"milestone", "added"} /\ toasts.target > 0) =>
        LET crossed == Crossed(toasts.old, toasts.new, toasts.target)
        IN  /\ toasts.new > toasts.old
            /\ (toasts.kind = "milestone") <=> (crossed # {})
            /\ crossed # {} =>
                  /\ toasts.milestone \in crossed
                  /\ \A p \in crossed : toasts.milestone <= p

\* C3: a contribution that crossed 25, 50 and 75 at once was announced
C3_SeveralCrossed ==
    /\ toasts.kind = "milestone"
    /\ toasts.target > 0
    /\ {25, 50, 75} \subseteq Crossed(toasts.old, toasts.new, toasts.target)

\* C4: for every goal with target_amount > 0 the displayed progress is
\* min(current / target * 100, 100) and lies in [0,100]; current = 0 gives 0
\* and any current >= target gives exactly 100.
C4_GoalProgressInRange ==
    \A i \in DOMAIN goals :
        LET g == goals[i]
            progress == getProgress(g)
        IN  g.target_amount > 0 =>
                /\ InDisplayRange(progress)
                /\ g.current_amount = 0 => JsEq(progress, 0)
                /\ g.current_amount >= g.target_amount => JsEq(progress, 100)
                /\ g.current_amount < g.target_amount =>
                      progress.n * g.target_amount = g.current_amount * 100 * progress.d

\* C4: a goal is listed whose saved amount is above its target
C4_AboveTarget ==
    \E i \in DOMAIN goals :
        goals[i].target_amount > 0 /\ goals[i].current_amount > goals[i].target_amount

\* C5: for non-negative period totals the change% is
\* (current - previous) / previous * 100 when previous > 0; when previous = 0
\* it is 100 if current > 0 and 0 if current = 0.
C5_ChangePercentage ==
    LET cur == totalSpending
        prev == previousTotalSpending
        change == changePercentage
    IN  /\ cur >= 0 /\ prev >= 0
        /\ prev > 0 =>
              /\ change.k = "fin"
              /\ change.n * prev = (cur - prev) * 100 * change.d
        /\ (prev = 0 /\ cur > 0) => JsEq(change, 100)
        /\ (prev = 0 /\ cur = 0) => JsEq(change, 0)

\* C5: spending in the current window and transactions of amount 0 only in the previous one
C5_NothingSpentBefore ==
    /\ totalSpending > 0
    /\ previousPeriodTransactions # <<>>
    /\ previousTotalSpending = 0

\* C8: both AI mutations given an empty transaction list, and the savings
\* mutation given monthlyIncome <= 0, fail with a validation error and make
\* no call to createChatCompletion.
C8_DegenerateInputFailsFast ==
    (/\ aiHook \in {"daily", "savings"}
     /\ \/ aiInput.transactions = 0
        \/ aiHook = "savings" /\ aiInput.monthlyIncome <= 0)
    => /\ aiPc = "error"
       /\ aiError \in ValidationErrors
       /\ aiCalls = 0
       /\ aiResult = NoResult

\* C8: the savings mutation was run with transactions, a goal and no income
C8_NoIncome ==
    /\ aiHook = "savings"
    /\ aiInput.savingsGoal = "given"
    /\ aiInput.transactions > 0
    /\ aiInput.monthlyIncome <= 0
    /\ aiPc = "error"

\* C9: the daily-insight mutation given a budget status whose totalBudget is
\* 0 fails with a validation error before any external call, and returns no
\* insight or sentiment.
C9_ZeroBudgetFailsFast ==
    (/\ aiHook = "daily"
     /\ aiInput.hasBudgetStatus
     /\ aiInput.budgetStatus.totalBudget = 0)
    => /\ aiPc = "error"
       /\ aiError \in ValidationErrors
       /\ aiCalls = 0
       /\ aiResult = NoResult

\* C9: the daily-insight mutation resolved for a budget status with totalBudget 0
C9_ZeroBudgetResolved ==
    /\ aiHook = "daily"
    /\ aiInput.budgetStatus.totalBudget = 0
    /\ aiPc = "success"

\* what a free account must not see, and what a premium account sees
C10_Visible ==
    /\ userProfile = "Free" =>
          /\ ~DailyInsightCardShown
          /\ ~SmartAlertsShown
          /\ PredictiveAlertView # "projection"
          /\ CoachingModalView # "insights"
          /\ aiCalls = 0 /\ aiPc = "idle" /\ insightCalls.started = 0
    /\ userProfile = "Premium" =>
          /\ DailyInsightCardShown <=> (overview.mounted /\ overview.dailyInsight)
          /\ SmartAlertsShown <=> (overview.mounted /\ overview.alerts > 0)
          /\ PredictiveAlertRendered => PredictiveAlertView = "projection"
          /\ modals.coaching => CoachingModalView = "insights"

\* what a request for a daily insight does
C10_Request ==
    HandleGenerateInsight =>
        /\ userProfile = "Free" =>
              /\ modals'.ovPricing
              /\ UNCHANGED <<aiVars, insightCalls>>
        /\ (userProfile = "Premium" /\ overview.yesterdayTxs > 0) =>
              /\ aiPc' = "calling"
              /\ aiCalls' = 1

\* C10: for a free account no premium-only feature is visible or triggered
\* (stored daily insight, smart alerts, predictive-alert content, coaching
\* insights; requesting a daily insight opens the pricing modal and calls
\* nothing); for a premium account each of them is available.
C10_EntitlementGate == [](C10_Visible) /\ [][C10_Request]_vars

\* C10: a free account with alerts stored, a locked predictive alert, the
\* coaching offer open, after it requested a daily insight
C10_FreeAccountBlocked ==
    /\ userProfile = "Free"
    /\ overview.mounted /\ overview.alerts > 0
    /\ PredictiveAlertView = "locked"
    /\ CoachingModalView = "offer"
    /\ modals.ovPricing /\ modals.pricingHighlight = HighlightInsight

\* C11: the behavioural insights of the analytics are shown only to a premium
\* account.
C11_InsightsOnlyForPremium == InsightsCardShown => isPremium

\* C11: a free account on the analytics with a transaction of the first week
C11_FreeAccountWithInsight ==
    /\ userProfile = "Free" /\ activeTab = "analytics"
    /\ Len(transactions) > 0 /\ Len(insights) > 0

\* the instant before the current window starts
C17_InstantBefore == Instant(dateRange.start.day - 1, 2)

\* the calendar period that ends with the instant before the current window
C17_PrecedingStart ==
    CASE timeFilter = "weekly" -> startOfWeek(C17_InstantBefore)
      [] timeFilter = "monthly" -> startOfMonth(C17_InstantBefore)
      [] timeFilter = "quarterly" -> startOfQuarter(C17_InstantBefore)
      [] timeFilter = "yearly" -> startOfYear(C17_InstantBefore)

\* C17: for each granularity the previous window is the whole calendar period
\* immediately preceding the current one: the windows do not overlap, every
\* transaction from the start of the preceding period up to the instant
\* before the current start is counted as previous, and every transaction
\* from the current start to the current end is counted as current.
C17_PreviousWindowIsPrecedingPeriod ==
    /\ previousRange.start = C17_PrecedingStart
    /\ ~DateLeq(dateRange.start, previousRange.end)
    /\ previousPeriodTransactions =
          SelectSeq(transactions,
                    LAMBDA tx : /\ DateLeq(C17_PrecedingStart, tx.time)
                                /\ DateLeq(tx.time, C17_InstantBefore))
    /\ filteredTransactions =
          SelectSeq(transactions,
                    LAMBDA tx : /\ DateLeq(dateRange.start, tx.time)
                                /\ DateLeq(tx.time, dateRange.end))
    /\ \A i \in DOMAIN transactions :
          ~(InRange(transactions[i].time, previousRange)
            /\ InRange(transactions[i].time, dateRange))

\* C17: the weekly view on Wednesday 2024-01-03 with a transaction of the
\* Saturday before, after midnight
C17_LastDayOfPrecedingWeek ==
    /\ timeFilter = "weekly" /\ now = Instant(DayOf(2024, 1, 3), 1)
    /\ \E i \in DOMAIN transactions :
          transactions[i].time = Instant(DayOf(2023, 12, 30), 1)

\* the insights of one kind, in their order
InsightsOfKind(kind) == SelectSeq(insights, LAMBDA insight : insight.kind = kind)

C19_Spent(category, range) ==
    LET window == range
    IN  SumOver(SelectSeq(transactions,
                    LAMBDA tx : tx.category = category /\ InRange(tx.time, window)),
                "amount")

\* C19: a category-growth insight is emitted for a category exactly when the
\* category has transactions in the current window, spending in the previous
\* one, and (current - previous) / previous * 100 > 15; an increase of
\* exactly 15% produces none.
C19_CategoryGrowth ==
    LET txs == filteredTransactions
        reported == InsightsOfKind("category")
    IN
    \A category \in {Food, Entertainment} :
        LET current == C19_Spent(category, dateRange)
            previous == C19_Spent(category, previousRange)
            inCurrent == \E i \in DOMAIN txs : txs[i].category = category
            emitted == SelectSeq(reported, LAMBDA insight : insight.category = category)
        IN  /\ Len(emitted) =
                  (IF inCurrent /\ previous > 0
                      /\ 100 * (current - previous) > 15 * previous
                   THEN 1 ELSE 0)
            /\ (previous > 0 /\ 100 * (current - previous) = 15 * previous)
                  => emitted = <<>>

\* C19: Food went from 5 to 63 and is reported; Entertainment, with 23 in the
\* current window and nothing before, is not
C19_GrowthReported ==
    /\ C19_Spent(Food, previousRange) = 5 /\ C19_Spent(Food, dateRange) = 63
    /\ C19_Spent(Entertainment, previousRange) = 0
    /\ C19_Spent(Entertainment, dateRange) = 23
    /\ InsightsOfKind("category") = <<Insight("category", Food, Num(1160))>>

\* C20: the front-loaded-month insight is emitted exactly when the filter is
\* monthly and the spending of the days 1 to 7 is strictly greater than 35%
\* of the total of the window; it is never emitted for another granularity.
C20_FrontLoadedMonth ==
    LET firstWeek == SumOver(SelectSeq(filteredTransactions,
                         LAMBDA tx : getDate(tx.time) \in 1..7), "amount")
    IN  /\ Len(InsightsOfKind("firstWeek")) =
              (IF timeFilter = "monthly" /\ 20 * firstWeek > 7 * totalSpending
               THEN 1 ELSE 0)
        /\ timeFilter # "monthly" => InsightsOfKind("firstWeek") = <<>>

\* C20: the monthly view of a month with 180 spent, 63 of it on the third
C20_ExactlyThirtyFivePercent ==
    /\ timeFilter = "monthly"
    /\ totalSpending = 180 /\ firstWeekSpending = 63
    /\ InsightsOfKind("firstWeek") # <<>>

\* C12: when the content holds no RECOMMENDATION marker, the savings
\* mutation returns without raising and its recommendations are exactly the
\* one-element list of the raw content.
C12_RawContentFallback ==
    (/\ aiHook = "savings" /\ aiResponse.kind = "content"
     /\ \A i \in DOMAIN aiResponse.content :
           aiResponse.content[i].recommendation = <<>>)
    => /\ aiPc = "success" /\ aiError = NoError
       /\ aiResult.recommendations = <<TextOf(aiResponse.content)>>

\* C12: the answer is a list of one item, "- Cook at home"
C12_ListWithoutMarkers ==
    /\ aiHook = "savings" /\ aiPc = "success"
    /\ TextOf(aiResponse.content) = <<"- Cook at home">>
    /\ aiResult.recommendations = <<<<"Cook at home">>>>

\* the RECOMMENDATION lines of a content that are followed, before the next
\* RECOMMENDATION line or the end, by a SAVINGS line and by a DIFFICULTY line
C13_Complete(lines) ==
    LET isRecommendation(i) == lines[i].recommendation # <<>>
        inRecord(i, j) ==
            j > i /\ \A m \in (i + 1)..j : ~isRecommendation(m)
    IN  SelectSeq([i \in DOMAIN lines |-> i],
                  LAMBDA i :
                      /\ isRecommendation(i)
                      /\ \E j \in DOMAIN lines :
                            inRecord(i, j) /\ lines[j].savings # <<>>
                      /\ \E j \in DOMAIN lines :
                            inRecord(i, j) /\ lines[j].difficulty # <<>>)

\* C13: the parser emits a structured action for a RECOMMENDATION line
\* exactly when a SAVINGS line and a DIFFICULTY line both occur after it and
\* before the next RECOMMENDATION line or the end of the text; a record
\* missing either is dropped, the trailing one too, and the actions keep the
\* order of their RECOMMENDATION lines.
C13_StructuredActions ==
    (aiHook = "savings" /\ aiPc = "success") =>
        LET lines == aiResponse.content
            complete == C13_Complete(lines)
            parsed == specificActions(lines)
        IN  /\ [i \in DOMAIN parsed |-> parsed[i].action] =
                  [i \in DOMAIN complete |-> lines[complete[i]].recommendation]
            /\ parsed # <<>> => aiResult.specificActions = parsed

\* C13: a recommendation followed by one line that holds the savings and
\* the difficulty
C13_SavingsAndDifficultyOnOneLine ==
    /\ aiHook = "savings" /\ aiPc = "success"
    /\ TextOf(aiResponse.content) =
          <<"RECOMMENDATION: Cook at home", "SAVINGS: $30/month, DIFFICULTY: hard">>
    /\ specificActions(aiResponse.content) = <<>>
    /\ aiResult.recommendations = <<TextOf(aiResponse.content)>>

\* C14: the sentiment of a daily insight is a function of spent / totalBudget
\* alone: positive below 0.7, warning above 0.9, neutral otherwise (at 0.7,
\* at 0.9, and for 0 / 0), whatever the text of the answer; a positive
\* amount spent against a budget of 0 is Infinity and gives warning.
C14_SentimentOfBudgetOnly ==
    (aiHook = "daily" /\ aiPc = "success") =>
        LET spent == aiInput.budgetStatus.spent
            total == aiInput.budgetStatus.totalBudget
        IN  aiResult.sentiment =
                IF total = 0
                THEN (IF spent > 0 THEN "warning" ELSE "neutral")
                ELSE IF 10 * spent < 7 * total THEN "positive"
                ELSE IF 10 * spent > 9 * total THEN "warning"
                ELSE "neutral"

\* C14: 7 of 10 spent, exactly 0.7, and an answer of three lines
C14_ExactlySevenTenths ==
    /\ aiHook = "daily" /\ aiPc = "success"
    /\ aiInput.budgetStatus = [totalBudget |-> 10, spent |-> 7]
    /\ Len(aiResponse.content) = 3
    /\ aiResult.sentiment = "neutral"

\* the answer of createChatCompletion cannot be used
C15_Unusable == aiResponse.kind \in {"error", "nodata", "nochoices", "empty"}

\* C15: an invocation of an AI mutation calls createChatCompletion at most
\* once; after an answer with an error, without data, without choices or
\* with empty content the mutation has ended in the error of that answer,
\* has returned nothing and has made no further call; a call is only ever
\* made by a new invocation.
C15_OneCallNoRetry ==
    /\ [](/\ aiCalls <= 1
          /\ C15_Unusable =>
                /\ aiPc = "error"
                /\ aiError = ResponseError(aiHook, aiResponse)
                /\ aiError \in {"Failed to generate daily insight",
                                "Failed to generate savings recommendations",
                                "No response data received from AI service",
                                "No completion choices returned from AI service",
                                "Empty content returned from AI service"}
                /\ aiResult = NoResult
                /\ aiCalls = 1)
    /\ [][(aiPc = "calling" /\ aiPc' # "calling") => aiCalls' = aiCalls]_vars

\* C15: the savings mutation after an answer without choices
C15_NoChoices ==
    /\ aiHook = "savings" /\ aiResponse.kind = "nochoices"
    /\ aiPc = "error" /\ aiCalls = 1

\* C16: from the overview at most one daily-insight request is outstanding
\* at any time, and a generate action taken while one is outstanding starts
\* no second one, under every interleaving of clicks and completions.
C16_OneRequestOutstanding ==
    /\ [](insightCalls.outstanding <= 1)
    /\ [][(HandleGenerateInsight /\ insightCalls.outstanding > 0)
             => insightCalls' = insightCalls]_vars

\* C16: the overview was left and opened again while its request was
\* pending, and the generate button was clicked once more
C16_TwoRequestsOutstanding ==
    /\ activeTab = "overview" /\ overview.mounted
    /\ aiPc = "calling"
    /\ insightCalls.outstanding = 2

\* C21 as stated: the improvement insight is emitted if and only if the
\* change of the total against the previous window is strictly below -5%,
\* and the percentage it reports is the absolute value of the change,
\* rounded: p <= |change| + 1/2 < p + 1.
C21_RoundedAbsoluteValue ==
    LET current == totalSpending
        previous == previousTotalSpending
        emitted == InsightsOfKind("reduced")
    IN  /\ Len(emitted) =
              (IF previous > 0 /\ 100 * (current - previous) < -5 * previous
               THEN 1 ELSE 0)
        /\ \A i \in DOMAIN emitted :
              LET p == emitted[i].percent
              IN  /\ p.k = "fin" /\ p.d = 1
                  /\ 2 * p.n * previous <= 200 * (previous - current) + previous
                  /\ 200 * (previous - current) + previous < 2 * (p.n + 1) * previous

\* C21: the improvement insight is emitted if and only if the change is
\* strictly below -5% (never without spending in the previous window, where
\* the change is 0 or 100), and the percentage it reports is the absolute
\* value of the rounded change, a half being rounded up: -p <= change + 1/2
\* < -p + 1, so that -87.5 is reported as 87.
C21_AbsoluteOfRoundedChange ==
    LET current == totalSpending
        previous == previousTotalSpending
        emitted == InsightsOfKind("reduced")
    IN  /\ Len(emitted) =
              (IF previous > 0 /\ 100 * (current - previous) < -5 * previous
               THEN 1 ELSE 0)
        /\ \A i \in DOMAIN emitted :
              LET p == emitted[i].percent
              IN  /\ p.k = "fin" /\ p.d = 1
                  /\ -2 * p.n * previous <= 200 * (current - previous) + previous
                  /\ 200 * (current - previous) + previous < 2 * (1 - p.n) * previous

\* C21: 40 spent before and 5 now, a change of -87.5%
C21_HalfPercent ==
    /\ previousTotalSpending = 40 /\ totalSpending = 5
    /\ InsightsOfKind("reduced") = <<Insight("reduced", 0, Fin(87, 1))>>

\* the place of a rule in the list
C22_Rank(kind) ==
    CASE kind = "weekend" -> 1 [] kind = "category" -> 2
      [] kind = "firstWeek" -> 3 [] kind = "reduced" -> 4

C23_EmptyWindows ==
    (filteredTransactions = <<>> /\ previousPeriodTransactions = <<>>) =>
        /\ totalSpending = 0 /\ previousTotalSpending = 0
        /\ changePercentage = Num(0)
        /\ categoryData = <<>>
        /\ weekendVsWeekday = [weekend |-> 0, weekday |-> 0]
        /\ insights = <<>>
        /\ ~InsightsCardShown

\* C23: the quarterly view in January 2024 of an account whose transactions
\* are all of May 2024
C23_NothingInTheWindows ==
    /\ timeFilter = "quarterly" /\ now = Instant(DayOf(2024, 1, 3), 1)
    /\ Len(transactions) = 2
    /\ filteredTransactions = <<>> /\ previousPeriodTransactions = <<>>

\* two numbers are the same value
SameValue(x, y) == x.k = "fin" /\ y.k = "fin" /\ x.n * y.d = y.n * x.d

\* amount * 52 for a weekly cycle, amount * 12 for monthly, amount * 1 for yearly
C24_Annualized(sub) ==
    CASE sub.billing_cycle = "Weekly" -> Fin(sub.amount.n * 52, sub.amount.d)
      [] sub.billing_cycle = "Monthly" -> Fin(sub.amount.n * 12, sub.amount.d)
      [] sub.billing_cycle = "Yearly" -> sub.amount

RECURSIVE C24_SumOfActive(_)
C24_SumOfActive(subs) ==
    IF subs = <<>> THEN Num(0)
    ELSE IF subs[1].is_active
         THEN JsPlus(C24_Annualized(subs[1]), C24_SumOfActive(Tail(subs)))
         ELSE C24_SumOfActive(Tail(subs))

\* C24: for every subscription the annualized cost is amount * 52 for a weekly
\* cycle, amount * 12 for monthly and amount * 1 for yearly, and the monthly
\* equivalent is the annualized cost / 12: the monthly total times 12 is the
\* sum of the annualized costs of the active subscriptions, and an amount of
\* 10 billed weekly shows as 520.00 per year and, alone, 43.33 per month.
C24_AnnualizedCost ==
    /\ \A i \in DOMAIN subscriptions :
          LET sub == subscriptions[i]
          IN  /\ SameValue(getYearlyCost(sub.amount, sub.billing_cycle),
                           C24_Annualized(sub))
              /\ (sub.amount = Num(10) /\ sub.billing_cycle = "Weekly")
                   => YearlyCostShown(i) = 52000
    /\ SameValue(JsTimes(getTotalMonthlySpend, 12), C24_SumOfActive(subscriptions))
    /\ SameValue(getTotalYearlySpend, C24_SumOfActive(subscriptions))
    /\ subscriptions = <<Subscription(Num(10), "Weekly", TRUE)>>
          => toFixed2(getTotalMonthlySpend) = 4333

\* C24: the only subscription is active, 10 billed weekly
C24_TenWeekly ==
    /\ subscriptions = <<Subscription(Num(10), "Weekly", TRUE)>>
    /\ toFixed2(getTotalYearlySpend) = 52000

\* C29: once a disconnect click has taken effect the integration stays
\* "disconnected" until the user clicks to connect again, whatever the order
\* of connect clicks, disconnect clicks and delayed connection completions.
C29_DisconnectedUntilConnectClick ==
    lastClick = "disconnect" =>
        \A k \in DOMAIN integrations : integrations[k].status = "disconnected"

\* C29: a disconnect has taken effect while a connection timeout is pending
C29_DisconnectedWithPendingTimeout ==
    /\ lastClick = "disconnect"
    /\ integrations[1].status = "disconnected"
    /\ timers # <<>>

\* C25: for every incomplete goal with a deadline, the weekly savings rate
\* needed is (target - current) / max(days_remaining, 1) * 7, a days_remaining
\* below 1 (deadline today or past) being treated as 1.
C25_WeeklyRateNeeded ==
    \A i \in DOMAIN goals : \A deadline \in DeadlineInputs \ {NoDeadline} :
        LET goal == goals[i]
            days == getDaysRemaining(deadline)[1]
            atLeastOne == IF days < 1 THEN 1 ELSE days
            weekly == getAIInsight(goal, deadline).weeklySavings
        IN  ~JsGeq(getProgress(goal), 100) =>
                /\ weekly # <<>>
                /\ SameValue(weekly[1],
                             Fin((goal.target_amount - goal.current_amount) * 7,
                                 atLeastOne))

\* C25: a goal not yet reached whose deadline was yesterday
C25_DeadlinePassed ==
    \E i \in DOMAIN goals :
        /\ goals[i].current_amount < goals[i].target_amount
        /\ getDaysRemaining(<<-1>>) = <<0>>
        /\ getAIInsight(goals[i], <<-1>>).message \in {"momentum", "greatProgress"}

\* C26: after any set of successful add-contribution operations on one goal,
\* a second one started before the first was persisted and the list reloaded
\* included, the stored current_amount is the amount before them plus the sum
\* of the amounts contributed: no contribution is lost.  Every contribution
\* whose write returns raises the stored amount by the amount contributed.
C26_NoContributionLost ==
    [][\A j \in DOMAIN goalOps :
          (GoalOpCompletes(j) /\ j \in PendingContributions(goalOps[j].id))
              => goalStore'[goalOps[j].id].current_amount =
                    goalStore[goalOps[j].id].current_amount
                        + (goalOps[j].toast.new - goalOps[j].toast.old)]_vars

\* C26: two contributions to one goal are being written at the same time
C26_TwoContributionsPending ==
    \E i \in DOMAIN goals : Cardinality(PendingContributions(i)) = 2

\* C27: clicking an upgrade button of the pricing modal calls onUpgrade with
\* the tier of the clicked button ("premium" for Upgrade to Premium, "yearly"
\* for Get Yearly Premium) and reports success for that tier, whatever tier
\* was selected before the click.
C27_UpgradesToClickedTier ==
    [][\A button \in {"premium", "yearly"} :
          (DashboardPricingUpgrade(button) \/ OverviewPricingUpgrade(button))
              => modals'.upgradedAs = button]_vars

\* C27: Get Yearly Premium was clicked in a pricing modal and the upgrade ran
C27_YearlyClicked ==
    /\ modals.upgradedAs # "none"
    /\ modals.dashSelected = "yearly" \/ modals.ovSelected = "yearly"

\* C28: a profile's account tier is Free when onboarding creates it and only
\* ever changes to Premium: after any sequence of onboarding and upgrade
\* actions, with any pricing tier selected, the stored tier is Free or
\* Premium, and once Premium it never returns to Free.
C28_FreeThenPremium ==
    /\ [](profileStore \in {"none", "Free", "Premium"})
    /\ [][/\ profileStore = "none" => profileStore' \in {"none", "Free"}
          /\ profileStore = "Free" => profileStore' \in {"Free", "Premium"}
          /\ profileStore = "Premium" => profileStore' = "Premium"
          /\ OnboardingSubmit => profileStore' = "Free"]_vars

\* C28: an account created by onboarding was upgraded from a pricing modal
C28_Upgraded ==
    /\ profileStore = "Premium"
    /\ userProfile = "Premium"
    /\ modals.upgradedAs \in {"premium", "yearly"}

\* C30: in every result of the savings-recommendation mutation,
\* projectedSavingsIncrease is the sum of potentialSavings over the
\* specificActions of the same result, also when no structured action was
\* parsed and the default action is returned.
C30_ProjectedIsSumOfActions ==
    aiResult.kind = "savings" =>
        aiResult.projectedSavingsIncrease =
            SumOver(aiResult.specificActions, "potentialSavings")

\* C30: the mutation resolved with the default action
C30_DefaultActionReturned ==
    /\ aiResult.kind = "savings"
    /\ aiPc = "success"
    /\ Len(aiResult.specificActions) = 1
    /\ aiResult.specificActions[1].action =
          <<"Review and optimize spending across all categories">>

====
